---------------------------- MODULE Spec2Model ----------------------------
(***************************************************************************)
(* SecureBackup: the backup / restore pipeline of app/src-tauri/src.       *)
(*                                                                         *)
(* Byte strings are records [data, z, key]: the bytes obtained from the    *)
(* plain content `data` by zstd-framing it when z holds and then sealing   *)
(* it in an AES-256-GCM envelope under `key` when key # NoKey.  A relative *)
(* path is the sequence of the dot-separated parts of its file name, so    *)
(* <<"a", "enc">> is the file "a.enc".  An Option is a sequence of length  *)
(* 0 (None) or 1 (Some).                                                   *)
(***************************************************************************)
EXTENDS Integers, Sequences, FiniteSets, TLC

(* ------------------------------ bounds --------------------------------- *)

\* backup runs started against the one destination (specification Spec)
MaxRuns == 2

\* backup runs before the restore runs (specification RestoreSpec)
MaxRestoreRuns == 1

\* execute_backup commands (specification CmdSpec)
MaxCmdRuns == 1

\* restore runs into the restore directory before it is emptied again
MaxRestores == 2

\* file-system faults injected into the per-file loop of one restore run
MaxRestoreFaults == 1

\* relative paths of the source tree: "a" and "a.enc"
Paths == {<<"a">>, <<"a", "enc">>}

\* plain file contents (byte sequences)
Datas == {<<>>, <<1>>}

\* passphrases
Passwords == {"pw1", "pw2"}

(* ------------------------------ helpers -------------------------------- *)

None == <<>>

Some(x) == <<x>>

\* f with key k bound to v (HashMap::insert / a file written at a path)
Put(f, k, v) == [x \in (DOMAIN f) \cup {k} |-> IF x = k THEN v ELSE f[x]]

\* the enumerations of the finite set S: the iteration orders of a HashMap
Perms(S) ==
    {q \in [1..Cardinality(S) -> S] : \A i, j \in 1..Cardinality(S) : i # j => q[i] # q[j]}

\* the elements of a sequence
Range(q) == {q[i] : i \in 1..Len(q)}

RECURSIVE SumOver(_, _)
\* sum of f[x] over the keys in S
SumOver(f, S) ==
    IF S = {} THEN 0 ELSE LET x == CHOOSE y \in S : TRUE IN f[x] + SumOver(f, S \ {x})

(* ------------------------------- crypto -------------------------------- *)

NoKey == "nokey"

\* Encryptor::new: the key is a deterministic function of the passphrase
EncryptorNew(password) == IF password = "pw1" THEN "key1" ELSE "key2"

\* a plain byte string
Plain(d) == [data |-> d, z |-> FALSE, key |-> NoKey]

\* Encryptor::encrypt: seal the bytes in an envelope under the key
Encrypt(key, b) == [b EXCEPT !.key = key]

\* variant: any key opens an envelope
DecryptOkAnyKey(key, b) == b.key # NoKey

\* Encryptor::decrypt succeeds exactly on an envelope sealed under the key
DecryptOk(key, b) == b.key # NoKey /\ b.key = key

Decrypt(key, b) == [b EXCEPT !.key = NoKey]

\* zstd::encode_all
ZstdEncode(b) == [b EXCEPT !.z = TRUE]

\* zstd::decode_all succeeds exactly on a zstd frame
ZstdDecodeOk(b) == b.key = NoKey /\ b.z

ZstdDecode(b) == [b EXCEPT !.z = FALSE]

\* blake3::hash(..).to_hex(): collision free on Datas
Blake3Hex(d) == IF d = <<>> THEN "af1349b9" ELSE "48fc721f"

(* ------------------------------- scanner ------------------------------- *)

\* metadata.modified(): the time a file was last written; each content of
\* Datas is taken to have been written at a time of its own
ModifiedOf(d) == Len(d) + 1

\* FileInfo::from_path followed by compute_hash (the executor scans with_hash)
FileInfoOf(p, d) ==
    [relative_path |-> p, size |-> Len(d), modified |-> ModifiedOf(d),
     hash |-> Some(Blake3Hex(d))]

\* the size of each scanned file
SizeOf(files) == [p \in DOMAIN files |-> files[p].size]

\* DirectoryScanner::scan over the tree src
Scan(src) ==
    LET files == [p \in DOMAIN src |-> FileInfoOf(p, src[p])]
    IN  [files |-> files,
         total_files |-> Cardinality(DOMAIN files),
         total_size |-> SumOver(SizeOf(files), DOMAIN files)]

\* the ScanResult of a run that has not scanned yet
NoScan == [files |-> <<>>, total_files |-> 0, total_size |-> 0]

(* -------------------------------- differ ------------------------------- *)

\* Option<String>::unwrap_or_default
UnwrapOrDefault(opt) == IF opt = None THEN "" ELSE opt[1]

\* executor.rs compute_diff_from_manifest; order and morder are the
\* iteration orders of current.files and of manifest.files
ComputeDiffFromManifest(mfiles, cfiles, order, morder) ==
    [added |-> SelectSeq(order, LAMBDA p : p \notin DOMAIN mfiles),
     modified |-> SelectSeq(order, LAMBDA p :
                     /\ p \in DOMAIN mfiles
                     /\ mfiles[p].hash # UnwrapOrDefault(cfiles[p].hash)),
     deleted |-> SelectSeq(morder, LAMBDA p : p \notin DOMAIN cfiles),
     unchanged |-> SelectSeq(order, LAMBDA p :
                     /\ p \in DOMAIN mfiles
                     /\ mfiles[p].hash = UnwrapOrDefault(cfiles[p].hash))]

\* scanner.rs compute_diff: is the path, present in both scans, modified
DiffModified(old_info, new_info) ==
    IF old_info.hash # None /\ new_info.hash # None
    THEN old_info.hash[1] # new_info.hash[1]
    ELSE old_info.size # new_info.size \/ old_info.modified # new_info.modified

\* variant: a path is reported unchanged without checking it was scanned before
ComputeDiffLoose(ofiles, nfiles, order, oorder) ==
    [added |-> SelectSeq(order, LAMBDA p : p \notin DOMAIN ofiles),
     modified |-> SelectSeq(order, LAMBDA p :
                     p \in DOMAIN ofiles /\ DiffModified(ofiles[p], nfiles[p])),
     deleted |-> SelectSeq(oorder, LAMBDA p : p \notin DOMAIN nfiles),
     unchanged |-> SelectSeq(order, LAMBDA p :
                     p \notin DOMAIN ofiles \/ ~DiffModified(ofiles[p], nfiles[p]))]

\* scanner.rs compute_diff; order and oorder are the iteration orders of
\* new.files and of old.files
ComputeDiff(ofiles, nfiles, order, oorder) ==
    [added |-> SelectSeq(order, LAMBDA p : p \notin DOMAIN ofiles),
     modified |-> SelectSeq(order, LAMBDA p :
                     p \in DOMAIN ofiles /\ DiffModified(ofiles[p], nfiles[p])),
     deleted |-> SelectSeq(oorder, LAMBDA p : p \notin DOMAIN nfiles),
     unchanged |-> SelectSeq(order, LAMBDA p :
                     p \in DOMAIN ofiles /\ ~DiffModified(ofiles[p], nfiles[p]))]

NoDiff == [added |-> <<>>, modified |-> <<>>, deleted |-> <<>>, unchanged |-> <<>>]

(* ------------------------------- manifest ------------------------------ *)

\* variant: the entries are written without the hash of the scan
FromScanUnhashed(scan, config) ==
    [version |-> "1.0.0",
     config |-> [encrypt |-> config.encrypt, compress |-> config.compress,
                 incremental |-> config.incremental],
     files |-> [p \in DOMAIN scan.files |->
                  [path |-> p,
                   original_size |-> scan.files[p].size,
                   backed_up_size |-> 0,
                   hash |-> "",
                   modified |-> scan.files[p].modified,
                   encrypted |-> config.encrypt,
                   compressed |-> config.compress]],
     stats |-> [total_files |-> scan.total_files,
                total_original_size |-> scan.total_size,
                total_backed_up_size |-> 0,
                backup_count |-> 1]]

\* BackupManifest::from_scan
FromScan(scan, config) ==
    [version |-> "1.0.0",
     config |-> [encrypt |-> config.encrypt, compress |-> config.compress,
                 incremental |-> config.incremental],
     files |-> [p \in DOMAIN scan.files |->
                  [path |-> p,
                   original_size |-> scan.files[p].size,
                   backed_up_size |-> 0,
                   hash |-> UnwrapOrDefault(scan.files[p].hash),
                   modified |-> scan.files[p].modified,
                   encrypted |-> config.encrypt,
                   compressed |-> config.compress]],
     stats |-> [total_files |-> scan.total_files,
                total_original_size |-> scan.total_size,
                total_backed_up_size |-> 0,
                backup_count |-> 1]]

\* the parsed content of a manifest.json that is absent or unreadable
BlankManifest ==
    [version |-> "", config |-> [encrypt |-> FALSE, compress |-> FALSE, incremental |-> FALSE],
     files |-> <<>>,
     stats |-> [total_files |-> 0, total_original_size |-> 0,
                total_backed_up_size |-> 0, backup_count |-> 0]]

\* manifest.json: absent, present and well-formed ("ok"), or present and
\* not parseable ("corrupt")
ManifestFile(state, body) == [state |-> state, body |-> body]

(* --------------------------- backup executor --------------------------- *)

\* BackupConfig (source_dir, dest_dir and exclude_patterns are fixed)
Configs == [encrypt : BOOLEAN, compress : BOOLEAN, incremental : BOOLEAN]

\* BackupConfig::default
DefaultConfig == [encrypt |-> FALSE, compress |-> TRUE, incremental |-> TRUE]

\* BackupExecutor::new
BackupExecutorNew(config) == [config |-> config, encryptor |-> None]

\* BackupExecutor::with_encryption
WithEncryption(ex, password) ==
    [config |-> [ex.config EXCEPT !.encrypt = TRUE],
     encryptor |-> Some(EncryptorNew(password))]

\* backup_file: PathBuf::set_extension("<ext>.enc"), or "enc" without extension
EncName(p) ==
    IF Len(p) > 1
    THEN SubSeq(p, 1, Len(p) - 1) \o <<p[Len(p)], "enc">>
    ELSE p \o <<"enc">>

\* backup_file: is the blob written as an envelope under the .enc name
WritesEncrypted(ex) == ex.config.encrypt /\ ex.encryptor # None

\* backup_file: the file name of the blob under <dest>/data
BlobName(ex, p) == IF WritesEncrypted(ex) THEN EncName(p) ELSE p

\* backup_file: the bytes of the blob, compress then encrypt
BlobBytes(ex, d) ==
    LET compressed == IF ex.config.compress THEN ZstdEncode(Plain(d)) ELSE Plain(d)
    IN  IF WritesEncrypted(ex) THEN Encrypt(ex.encryptor[1], compressed) ELSE compressed

\* variant: the data directory is emptied before a blob is written
WriteBlobPruning(data, name, bytes) == [x \in {name} |-> bytes]

\* backup_file: File::create(dest_path) and write_all
WriteBlob(data, name, bytes) == Put(data, name, bytes)

\* BackupProgress
Progress(processed_files, total_files, processed_bytes, total_bytes, current_file, status, error) ==
    [processed_files |-> processed_files, total_files |-> total_files,
     processed_bytes |-> processed_bytes, total_bytes |-> total_bytes,
     current_file |-> current_file, status |-> status, error |-> error]

\* execute: the entry of failed_files for a per-file error, "<path>: <error>"
FailedEntry(p, e) == [path |-> p, error |-> e]

\* variant: the terminal event reports Completed whatever failed
TerminalStatusCompleted(failed) == "Completed"

\* execute: the status of the terminal progress event
TerminalStatus(failed) == IF failed = <<>> THEN "Completed" ELSE "Failed"

\* execute: the processed_files count of the terminal progress event
TerminalProcessed(nBackedUp, nWork) == nBackedUp

\* variant: the loop stops at the first per-file failure
LoopDoneOrFailed(i, work, failed) == i = Len(work) \/ failed # <<>>

\* execute: the per-file loop has gone through the whole work list
LoopDone(i, work, failed) == i = Len(work)

\* variant: the files that failed are counted as backed up
BackupResultCountingFailed(nFiles, nBytes, nSkipped, failed) ==
    [backed_up_files |-> nFiles + Len(failed), backed_up_bytes |-> nBytes,
     skipped_files |-> nSkipped, failed_files |-> failed,
     success |-> (failed = <<>>)]

\* BackupResult returned by execute
BackupResult(nFiles, nBytes, nSkipped, failed) ==
    [backed_up_files |-> nFiles, backed_up_bytes |-> nBytes,
     skipped_files |-> nSkipped, failed_files |-> failed,
     success |-> (failed = <<>>)]

(* -------------------------------- state -------------------------------- *)

VARIABLES
    source,           \* the source tree: path -> plain content
    blobs,            \* <dest>/data: blob file name -> byte string
    manifest,         \* <dest>/manifest.json
    pc,               \* position of BackupExecutor::execute
    executor,         \* the BackupExecutor: config and encryptor
    callback,         \* its progress_callback: "recorder" or "slot"
    current_scan,     \* execute: current_scan
    files_to_backup,  \* execute: the work list
    skipped_count,    \* execute: skipped_count
    idx,              \* execute: index of the per-file loop
    backed_up_files,  \* execute: backed_up_files
    backed_up_bytes,  \* execute: backed_up_bytes
    failed_files,     \* execute: failed_files
    result,           \* Some(BackupResult) once execute returned Ok
    error,            \* Some(error kind) once execute returned Err
    events,           \* the progress events delivered to the callback, in order
    runsLeft,         \* number of runs that may still start
    srcAtScan,        \* history: the source tree as the run scanned it
    prevSrc,          \* history: the tree scanned by the last run that returned Ok
    sameAsPrev,       \* history: the run started on the tree of the last Ok run
    clean,            \* history: every run so far returned a result without a failed file
    failedBefore,     \* history: paths that failed in the run before this one, which
                      \* returned a result, and are in the source as that run scanned them
    nCompleted,       \* history: number of runs that returned Ok
    attempts,         \* history: the backup_file calls of the run and their outcome
    storedAs,         \* history: path -> how its last blob was written
    cmd_pc,           \* position of the execute_backup command
    slot,             \* AppState.progress
    response,         \* the BackupResponse of the last execute_backup
    polled,           \* the last ProgressResponse of get_progress
    sawTerminal,      \* history: get_progress returned the run's terminal event
    rdir,             \* the restore directory: path -> byte string
    rconfig,          \* the RestoreExecutor of the last restore run
    rresult,          \* Some(RestoreResult) of the last restore run
    rerror,           \* Some(RestoreError) of the last restore run
    rpre,             \* history: the restore directory before the last restore run
    rdir_exists,      \* the restore directory exists on disk
    rtrace,           \* history: targets, per-entry steps and faults of the last restore run
    nRestores,        \* number of restore runs since the directory was emptied
    dOld,             \* differ: the previous scan
    dNew,             \* differ: the current scan
    dOut,             \* differ: the results of compute_diff and compute_diff_from_manifest
    cenv,             \* crypto: the envelope, as encrypt returned it or as changed since
    cmeta,            \* crypto history: the encrypt call that made the envelope
    cout,             \* crypto: the last decrypt call and what it returned
    sTree,            \* scanner: the regular files on disk below the scan root
    sPatterns,        \* scanner: the caller's exclude patterns
    sRoot,            \* scanner: the components of the scan root as given
    sOut,             \* scanner: the ScanResult of the last scan
    pwcheck,          \* the last check_password call and its response
    upd,              \* the last BackupManifest::update call: manifest before, scan, manifest after
    kdf               \* derive_key: the call in progress or returned

fsVars == <<source, blobs, manifest>>

runVars == <<pc, executor, callback, current_scan, files_to_backup, skipped_count, idx,
             backed_up_files, backed_up_bytes, failed_files, result, error, events, runsLeft>>

histVars ==
    <<srcAtScan, prevSrc, sameAsPrev, clean, failedBefore, nCompleted, attempts, storedAs>>

cmdVars == <<cmd_pc, slot, response, polled, sawTerminal>>

restoreVars == <<rdir, rconfig, rresult, rerror, rpre, rdir_exists, rtrace, nRestores>>

diffVars == <<dOld, dNew, dOut>>

cryptoVars == <<cenv, cmeta, cout>>

scanVars == <<sTree, sPatterns, sRoot, sOut>>

unitVars == <<pwcheck, upd, kdf>>

pureVars == <<diffVars, cryptoVars, scanVars, unitVars>>

vars == <<fsVars, runVars, histVars, cmdVars, restoreVars, pureVars>>

NoExecutor == BackupExecutorNew([encrypt |-> FALSE, compress |-> FALSE, incremental |-> FALSE])

NoRestoreConfig == [files |-> <<>>, overwrite |-> FALSE, encryptor |-> None]

\* no restore run has been made
NoRestoreTrace ==
    [targets |-> <<>>, steps |-> <<>>, fio |-> "ok", pre_exists |-> FALSE, events |-> <<>>]

\* a fresh process: no executor has run, the restore directory does not exist
InitProcess(runs) ==
    /\ pc = "idle"
    /\ executor = NoExecutor
    /\ callback = "recorder"
    /\ current_scan = NoScan
    /\ files_to_backup = <<>>
    /\ skipped_count = 0
    /\ idx = 0
    /\ backed_up_files = 0
    /\ backed_up_bytes = 0
    /\ failed_files = <<>>
    /\ result = None
    /\ error = None
    /\ events = <<>>
    /\ runsLeft = runs
    /\ srcAtScan = <<>>
    /\ prevSrc = None
    /\ sameAsPrev = FALSE
    /\ failedBefore = {}
    /\ clean = TRUE
    /\ nCompleted = 0
    /\ attempts = <<>>
    /\ storedAs = <<>>
    /\ cmd_pc = "none"
    /\ slot = None
    /\ response = None
    /\ polled = None
    /\ sawTerminal = FALSE
    /\ rdir = <<>>
    /\ rconfig = NoRestoreConfig
    /\ rresult = None
    /\ rerror = None
    /\ rpre = <<>>
    /\ rdir_exists = FALSE
    /\ rtrace = NoRestoreTrace
    /\ nRestores = 0

\* the destination and the restore directory are empty, nothing has run,
\* and `runs` backup runs may start
InitPipeline(runs) ==
    /\ source \in UNION {[S -> Datas] : S \in SUBSET Paths}
    /\ blobs = <<>>
    /\ manifest = ManifestFile("absent", BlankManifest)
    /\ InitProcess(runs)

NoDiffInput ==
    /\ dOld = <<>>
    /\ dNew = <<>>
    /\ dOut = None

\* no encrypt or decrypt call has been made
NoCryptoRun ==
    /\ cenv = None
    /\ cmeta = None
    /\ cout = None

\* no scan of a directory tree has been made
NoScanRun ==
    /\ sTree = {}
    /\ sPatterns = <<>>
    /\ sRoot = <<>>
    /\ sOut = None

\* no call of check_password, BackupManifest::update or derive_key has been made
NoUnitRun ==
    /\ pwcheck = None
    /\ upd = None
    /\ kdf = None

NoPureInput == NoDiffInput /\ NoCryptoRun /\ NoScanRun /\ NoUnitRun

Init == InitPipeline(MaxRuns) /\ NoPureInput

(* ------------------------------ environment ---------------------------- *)

\* no backup run is in progress
Idle == pc \in {"idle", "ok", "err"} /\ cmd_pc # "running"

\* a backup run may start: none is in progress, the restore directory is
\* cleared and the run budget is not used up
Quiet == Idle /\ nRestores = 0 /\ runsLeft > 0

\* the user creates or rewrites a source file
WriteSource(p, d) ==
    /\ Quiet
    /\ IF p \in DOMAIN source THEN source[p] # d ELSE TRUE
    /\ source' = Put(source, p, d)
    /\ UNCHANGED <<blobs, manifest, runVars, histVars, cmdVars, restoreVars, pureVars>>

\* the user deletes a source file
RemoveSource(p) ==
    /\ Quiet
    /\ p \in DOMAIN source
    /\ source' = [x \in (DOMAIN source) \ {p} |-> source[x]]
    /\ UNCHANGED <<blobs, manifest, runVars, histVars, cmdVars, restoreVars, pureVars>>

\* manifest.json is damaged outside the program
DamageManifest ==
    /\ Idle
    /\ nRestores = 0
    /\ manifest.state = "ok"
    /\ manifest' = ManifestFile("corrupt", BlankManifest)
    /\ UNCHANGED <<source, blobs, runVars, histVars, cmdVars, restoreVars, pureVars>>

(* ------------------------- BackupExecutor::execute --------------------- *)

\* report_progress: the callback records the event; the command's callback
\* also stores it in the shared slot
ReportProgress(ev) ==
    /\ events' = Append(events, ev)
    /\ slot' = IF callback = "slot" THEN Some(ev) ELSE slot

\* execute, up to the creation of the destination directory: report
\* Scanning, scan the source with hashes, create <dest>
StartBackup(ex, cb) ==
    /\ Quiet
    /\ runsLeft' = runsLeft - 1
    /\ executor' = ex
    /\ callback' = cb
    /\ events' = <<Progress(0, 0, 0, 0, None, "Scanning", None)>>
    /\ slot' = IF cb = "slot" THEN Some(Progress(0, 0, 0, 0, None, "Scanning", None)) ELSE slot
    /\ files_to_backup' = <<>>
    /\ skipped_count' = 0
    /\ idx' = 0
    /\ backed_up_files' = 0
    /\ backed_up_bytes' = 0
    /\ failed_files' = <<>>
    /\ result' = None
    /\ attempts' = <<>>
    /\ srcAtScan' = source
    /\ sameAsPrev' = (prevSrc = Some(source))
    /\ failedBefore' = IF pc # "ok" THEN {}
                       ELSE {q \in {failed_files[i].path : i \in 1..Len(failed_files)} :
                               q \in DOMAIN source /\ source[q] = srcAtScan[q]}
    /\ \E io \in {"ok", "scan_err", "mkdir_err"} :
         IF io = "ok"
         THEN /\ current_scan' = Scan(source)
              /\ pc' = "diff"
              /\ error' = None
              /\ UNCHANGED clean
         ELSE /\ current_scan' = NoScan
              /\ pc' = "err"
              /\ error' = Some(IF io = "scan_err" THEN "Scan" ELSE "Io")
              /\ clean' = FALSE
    /\ sawTerminal' = FALSE
    /\ UNCHANGED <<fsVars, prevSrc, nCompleted, storedAs, response, polled,
                   restoreVars, pureVars>>

\* variant: a manifest that does not parse is taken for an empty one
LoadFailsOnReadOnly(state, io) == io = "read_err"

\* compute_incremental_files: reading or parsing the existing manifest fails
LoadFails(state, io) == io = "read_err" \/ state = "corrupt"

\* variant: new files are left out of the work list
IncrementalFilesModifiedOnly(mfiles, scan, order, morder) ==
    LET diff == ComputeDiffFromManifest(mfiles, scan.files, order, morder)
    IN  [files |-> diff.modified, skipped |-> Len(diff.unchanged)]

\* variant: the manifest is ignored and every scanned file is backed up again
IncrementalFilesAll(mfiles, scan, order, morder) == [files |-> order, skipped |-> 0]

\* compute_incremental_files with an existing, readable manifest
IncrementalFiles(mfiles, scan, order, morder) ==
    LET diff == ComputeDiffFromManifest(mfiles, scan.files, order, morder)
    IN  [files |-> diff.added \o diff.modified, skipped |-> Len(diff.unchanged)]

\* execute: report ComputingDiff and choose the work list
DiffStep ==
    /\ pc = "diff"
    /\ ReportProgress(Progress(0, current_scan.total_files, 0, current_scan.total_size,
                               None, "ComputingDiff", None))
    /\ \E order \in Perms(DOMAIN current_scan.files), morder \in Perms(DOMAIN manifest.body.files),
          io \in {"ok", "read_err"} :
         IF executor.config.incremental /\ manifest.state # "absent"
         THEN IF LoadFails(manifest.state, io)
              THEN /\ pc' = "err"
                   /\ error' = Some(IF io = "read_err" THEN "Io" ELSE "Serialize")
                   /\ UNCHANGED <<files_to_backup, skipped_count>>
              ELSE LET w == IncrementalFiles(manifest.body.files, current_scan, order, morder)
                   IN  /\ files_to_backup' = w.files
                       /\ skipped_count' = w.skipped
                       /\ pc' = "backing"
                       /\ UNCHANGED error
         ELSE /\ io = "ok"
              /\ files_to_backup' = order
              /\ skipped_count' = 0
              /\ pc' = "backing"
              /\ UNCHANGED error
    /\ clean' = (clean /\ pc' # "err")
    /\ UNCHANGED <<fsVars, executor, callback, current_scan, idx, backed_up_files,
                   backed_up_bytes, failed_files, result, runsLeft, srcAtScan, prevSrc,
                   sameAsPrev, failedBefore, nCompleted, attempts, storedAs,
                   cmd_pc, response, polled, sawTerminal, restoreVars, pureVars>>

\* execute: one iteration of the per-file loop, report Backing and call
\* backup_file; an I/O error of backup_file writes nothing
BackupStep ==
    /\ pc = "backing"
    /\ ~LoopDone(idx, files_to_backup, failed_files)
    /\ LET file_path == files_to_backup[idx + 1]
       IN  /\ ReportProgress(Progress(idx, Len(files_to_backup), backed_up_bytes,
                                      current_scan.total_size, Some(file_path), "Backing", None))
           /\ \E io \in {"ok", "io_err"} :
                /\ attempts' = Append(attempts, [path |-> file_path, ok |-> (io = "ok")])
                /\ clean' = (clean /\ io = "ok")
                /\ IF io = "ok"
                   THEN /\ blobs' = WriteBlob(blobs, BlobName(executor, file_path),
                                              BlobBytes(executor, source[file_path]))
                        /\ storedAs' = Put(storedAs, file_path,
                                           IF WritesEncrypted(executor) THEN "enc" ELSE "plain")
                        /\ backed_up_files' = backed_up_files + 1
                        /\ backed_up_bytes' = backed_up_bytes + Len(source[file_path])
                        /\ UNCHANGED failed_files
                   ELSE /\ failed_files' = Append(failed_files, FailedEntry(file_path, "Io"))
                        /\ UNCHANGED <<blobs, storedAs, backed_up_files, backed_up_bytes>>
    /\ idx' = idx + 1
    /\ UNCHANGED <<source, manifest, pc, executor, callback, current_scan, files_to_backup,
                   skipped_count, result, error, runsLeft, srcAtScan, prevSrc, sameAsPrev,
                   failedBefore,
                   nCompleted, cmd_pc, response, polled, sawTerminal, restoreVars, pureVars>>

\* execute, after the loop: save_manifest, report the terminal event and
\* return the BackupResult; a failing fs::write leaves manifest.json as it
\* was or truncated
FinishBackup ==
    /\ pc = "backing"
    /\ LoopDone(idx, files_to_backup, failed_files)
    /\ \E io \in {"ok", "write_err", "write_torn"} :
         IF io = "ok"
         THEN /\ manifest' = ManifestFile("ok", FromScan(current_scan, executor.config))
              /\ ReportProgress(Progress(TerminalProcessed(backed_up_files, Len(files_to_backup)),
                                         Len(files_to_backup), backed_up_bytes,
                                         current_scan.total_size, None,
                                         TerminalStatus(failed_files),
                                         IF failed_files = <<>> THEN None
                                         ELSE Some(Len(failed_files))))
              /\ result' = Some(BackupResult(backed_up_files, backed_up_bytes,
                                             skipped_count, failed_files))
              /\ pc' = "ok"
              /\ prevSrc' = Some(srcAtScan)
              /\ nCompleted' = nCompleted + 1
              /\ UNCHANGED error
         ELSE /\ manifest' = IF io = "write_err" THEN manifest
                             ELSE ManifestFile("corrupt", BlankManifest)
              /\ pc' = "err"
              /\ error' = Some("Io")
              /\ UNCHANGED <<events, slot, result, prevSrc, nCompleted>>
    /\ clean' = (clean /\ pc' # "err")
    /\ UNCHANGED <<source, blobs, executor, callback, current_scan, files_to_backup,
                   skipped_count, idx, backed_up_files, backed_up_bytes, failed_files, runsLeft,
                   srcAtScan, sameAsPrev, failedBefore, attempts, storedAs, cmd_pc, response,
                   polled,
                   sawTerminal, restoreVars, pureVars>>

\* a caller of the library builds an executor, with or without a passphrase,
\* and runs it
Execute ==
    \E config \in Configs, password \in {None, Some("pw1")} :
        StartBackup(IF password = None THEN BackupExecutorNew(config)
                    ELSE WithEncryption(BackupExecutorNew(config), password[1]),
                    "recorder")
        /\ UNCHANGED cmd_pc

(* ------------------------- RestoreExecutor::execute -------------------- *)

\* RestoreExecutor::new and with_password
RestoreExecutorNew(files, overwrite, password) ==
    [files |-> files, overwrite |-> overwrite,
     encryptor |-> IF password = None THEN None ELSE Some(EncryptorNew(password[1]))]

\* variant: the blob is looked up under the entry's own name, also when encrypted
BackupFilePathPlain(entry) == entry.path

\* restore_file: the blob file of a manifest entry
BackupFilePath(entry) == IF entry.encrypted THEN EncName(entry.path) ELSE entry.path

\* variant: an existing destination file is never left alone
SkipExistingNever(rex, entry, dir) == FALSE

\* restore_file: the destination exists and must not be overwritten
SkipExisting(rex, entry, dir) == entry.path \in DOMAIN dir /\ ~rex.overwrite

\* variant: the restored bytes are also written over the blob of the same name
RestoreWriteIntoBackup(st, path, bytes) ==
    [st EXCEPT !.dir = Put(@, path, bytes), !.data = Put(@, path, bytes)]

\* restore_file: File::create(restore_path) and write_all
RestoreWrite(st, path, bytes) == [st EXCEPT !.dir = Put(@, path, bytes)]

\* the faults of the file system during one restore_file call: reading the
\* blob fails, or writing the destination fails after it was created
RestoreIo == {"ok", "io_read", "io_write"}

\* the faults met by the n restore_file calls of one run, at most `faults`
RestoreFaults(n, faults) ==
    {ios \in [1..n -> RestoreIo] : Cardinality({i \in 1..n : ios[i] # "ok"}) <= faults}

\* variant: without an encryptor an encrypted blob is passed on as it is
DecryptFailsKeyedOnly(rex, entry, raw) ==
    entry.encrypted /\ rex.encryptor # None /\ ~DecryptOk(rex.encryptor[1], raw)

\* restore_file: the decryption step fails with WrongPassword, for an
\* encrypted entry when there is no encryptor or decrypt returns an error
DecryptFails(rex, entry, raw) ==
    entry.encrypted /\ (rex.encryptor = None \/ ~DecryptOk(rex.encryptor[1], raw))

\* restore_file: the outcome for one entry; st holds the restore directory
\* (dir) and the backup's data directory (data) as the run has left them
RestoreFile(rex, entry, m, st, io) ==
    IF SkipExisting(rex, entry, st.dir)
    THEN [kind |-> "Skipped", error |-> "", st |-> st]
    ELSE IF BackupFilePath(entry) \notin DOMAIN st.data
    THEN [kind |-> "Err", error |-> "BackupFileNotFound", st |-> st]
    ELSE IF io = "io_read"
    THEN [kind |-> "Err", error |-> "Io", st |-> st]
    ELSE LET raw == st.data[BackupFilePath(entry)]
             decryptFails == DecryptFails(rex, entry, raw)
             decrypted == IF entry.encrypted /\ rex.encryptor # None
                          THEN Decrypt(rex.encryptor[1], raw) ELSE raw
             decompress == entry.compressed \/ m.config.compress
         IN  IF decryptFails
             THEN [kind |-> "Err", error |-> "WrongPassword", st |-> st]
             ELSE IF decompress /\ ~ZstdDecodeOk(decrypted)
             THEN [kind |-> "Err", error |-> "Decompression", st |-> st]
             ELSE IF io = "io_write"
             THEN [kind |-> "Err", error |-> "Io",
                   st |-> RestoreWrite(st, entry.path, Plain(<<>>))]
             ELSE [kind |-> "Restored", error |-> "",
                   st |-> RestoreWrite(st, entry.path,
                              IF decompress THEN ZstdDecode(decrypted) ELSE decrypted)]

\* RestoreProgress
RestoreProgress(nFiles, total_files, nBytes, total_bytes, current_file, status, err) ==
    [processed_files |-> nFiles, total_files |-> total_files,
     processed_bytes |-> nBytes, total_bytes |-> total_bytes,
     current_file |-> current_file, status |-> status, error |-> err]

\* execute: the first progress event of a restore run
LoadingManifestEvent == RestoreProgress(0, 0, 0, 0, None, "LoadingManifest", None)

RECURSIVE TotalBytes(_)
\* execute: total_bytes, the sum of original_size over the target entries
TotalBytes(targets) ==
    IF targets = <<>> THEN 0 ELSE Head(targets).original_size + TotalBytes(Tail(targets))

\* the counters of execute before the loop over the target entries, with
\* the restore directory, the backup's data directory, the steps made and
\* the progress events reported so far
RestoreState(dir, data, targets) ==
    [restored_files |-> 0, restored_bytes |-> 0, skipped_files |-> 0,
     failed_files |-> <<>>, dir |-> dir, data |-> data, steps |-> <<>>,
     total_files |-> Len(targets), total_bytes |-> TotalBytes(targets),
     events |-> <<LoadingManifestEvent>>]

\* execute: the last progress event of a restore run
RestoreTerminalEvent(st) ==
    RestoreProgress(st.restored_files, st.total_files, st.restored_bytes, st.total_bytes,
                    None, IF st.failed_files = <<>> THEN "Completed" ELSE "Failed",
                    IF st.failed_files = <<>> THEN None ELSE Some(Len(st.failed_files)))

\* variant: the loop stops at the first per-file failure
RestoreDoneOrFailed(targets, st) == targets = <<>> \/ st.failed_files # <<>>

\* execute: the per-entry loop has gone through all target entries
RestoreDone(targets, st) == targets = <<>>

RECURSIVE RestoreLoop(_, _, _, _, _)
\* execute: the per-entry loop over the target entries; ios are the faults
\* met by the restore_file calls, in order
RestoreLoop(rex, targets, m, ios, st) ==
    IF RestoreDone(targets, st) THEN st
    ELSE LET entry == Head(targets)
             r == RestoreFile(rex, entry, m, st, Head(ios))
             step == [path |-> entry.path, kind |-> r.kind, error |-> r.error,
                      encrypted |-> entry.encrypted,
                      existed |-> entry.path \in DOMAIN st.dir,
                      wrote |-> r.st.dir # st.dir]
             event == RestoreProgress(Len(st.steps), st.total_files, st.restored_bytes,
                                      st.total_bytes, Some(entry.path), "Restoring", None)
             st1 == [r.st EXCEPT !.steps = Append(@, step), !.events = Append(@, event)]
             st2 == CASE r.kind = "Restored" ->
                           [st1 EXCEPT !.restored_files = @ + 1,
                                       !.restored_bytes = @ + entry.original_size]
                      [] r.kind = "Skipped" -> [st1 EXCEPT !.skipped_files = @ + 1]
                      [] OTHER -> [st1 EXCEPT !.failed_files =
                                                 Append(@, FailedEntry(entry.path, r.error))]
         IN  RestoreLoop(rex, Tail(targets), m, Tail(ios), st2)

\* variant: a non-empty file list is ignored and every entry is restored
FilesToRestoreAll(rex, m, order) == [i \in 1..Len(order) |-> m.files[order[i]]]

\* execute: the target entries; order is the iteration order of manifest.files
FilesToRestore(rex, m, order) ==
    IF rex.files = <<>>
    THEN [i \in 1..Len(order) |-> m.files[order[i]]]
    ELSE LET present == SelectSeq(rex.files, LAMBDA p : p \in DOMAIN m.files)
         IN  [i \in 1..Len(present) |-> m.files[present[i]]]

\* the file lists a caller passes in RestoreConfig.files
RestoreFileLists ==
    {<<>>} \cup {<<p>> : p \in Paths} \cup {<<p, q>> : p \in Paths, q \in Paths}

\* variant: a missing or malformed manifest is read as an empty one
LoadManifestLenient(mf, fio) ==
    IF mf.state = "ok" /\ fio # "read_err" THEN [ok |-> TRUE, error |-> "", body |-> mf.body]
    ELSE [ok |-> TRUE, error |-> "", body |-> BlankManifest]

\* load_manifest
LoadManifest(mf, fio) ==
    IF mf.state = "absent"
    THEN [ok |-> FALSE, error |-> "ManifestNotFound", body |-> BlankManifest]
    ELSE IF fio = "read_err"
    THEN [ok |-> FALSE, error |-> "Io", body |-> BlankManifest]
    ELSE IF mf.state = "corrupt"
    THEN [ok |-> FALSE, error |-> "ManifestParse", body |-> BlankManifest]
    ELSE [ok |-> TRUE, error |-> "", body |-> mf.body]

\* RestoreExecutor::execute, a whole restore run; fio is the fault met
\* outside the loop: reading manifest.json or creating the restore directory
RestoreExecute(rex, faults) ==
    /\ Idle
    /\ nRestores < MaxRestores
    /\ nRestores' = nRestores + 1
    /\ rconfig' = rex
    /\ rpre' = rdir
    /\ \E fio \in (IF faults > 0 THEN {"ok", "read_err", "mkdir_err"} ELSE {"ok"}) :
         LET loaded == LoadManifest(manifest, fio)
         IN  IF ~loaded.ok \/ fio = "mkdir_err"
             THEN /\ fio = "mkdir_err" => loaded.ok
                  /\ fio = "read_err" => manifest.state # "absent"
                  /\ rerror' = Some(IF loaded.ok THEN "Io" ELSE loaded.error)
                  /\ rresult' = None
                  /\ rtrace' = [targets |-> <<>>, steps |-> <<>>, fio |-> fio,
                                pre_exists |-> rdir_exists,
                                events |-> <<LoadingManifestEvent>>]
                  /\ UNCHANGED <<rdir, rdir_exists, blobs>>
             ELSE \E order \in Perms(DOMAIN loaded.body.files) :
                    LET targets == FilesToRestore(rex, loaded.body, order)
                    IN  \E ios \in RestoreFaults(Len(targets), faults) :
                          LET st == RestoreLoop(rex, targets, loaded.body, ios,
                                                RestoreState(rdir, blobs, targets))
                          IN  /\ rdir' = st.dir
                              /\ blobs' = st.data
                              /\ rdir_exists' = TRUE
                              /\ rresult' = Some([restored_files |-> st.restored_files,
                                                  restored_bytes |-> st.restored_bytes,
                                                  skipped_files |-> st.skipped_files,
                                                  failed_files |-> st.failed_files,
                                                  success |-> (st.failed_files = <<>>)])
                              /\ rerror' = None
                              /\ rtrace' = [targets |-> [i \in 1..Len(targets) |-> targets[i].path],
                                            steps |-> st.steps, fio |-> fio,
                                            pre_exists |-> rdir_exists,
                                            events |-> Append(st.events,
                                                              RestoreTerminalEvent(st))]
    /\ UNCHANGED <<source, manifest, runVars, histVars, cmdVars, pureVars>>

\* a caller of the library restores the whole backup or one path of it, the
\* file system failing nothing
Restore ==
    \E files \in {<<>>} \cup {<<p>> : p \in Paths}, overwrite \in BOOLEAN,
       password \in {None} \cup {Some(w) : w \in Passwords} :
        RestoreExecute(RestoreExecutorNew(files, overwrite, password), 0)

\* the user removes the restore directory
ClearRestoreDir ==
    /\ nRestores > 0
    /\ nRestores' = 0
    /\ rdir' = <<>>
    /\ rdir_exists' = FALSE
    /\ rconfig' = NoRestoreConfig
    /\ rresult' = None
    /\ rerror' = None
    /\ rpre' = <<>>
    /\ rtrace' = NoRestoreTrace
    /\ UNCHANGED <<fsVars, runVars, histVars, cmdVars, pureVars>>

(* ----------------------------- specification --------------------------- *)

\* the library: backup runs against one destination
Next ==
    \/ \E p \in Paths, d \in Datas : WriteSource(p, d)
    \/ \E p \in Paths : RemoveSource(p)
    \/ (runsLeft > 0 /\ DamageManifest)
    \/ Execute
    \/ DiffStep
    \/ BackupStep
    \/ FinishBackup

Spec == Init /\ [][Next]_vars

\* a caller of the library restores the whole of the backup that the last
\* run has left, into an empty directory, the file system failing nothing
RestoreBackup ==
    /\ pc = "ok"
    /\ nRestores = 0
    /\ \E password \in {None, Some("pw1")} :
         RestoreExecute(RestoreExecutorNew(<<>>, TRUE, password), 0)

\* the library: backup runs against one destination, followed by a restore
\* run
PipelineNext ==
    \/ \E p \in Paths, d \in Datas : WriteSource(p, d)
    \/ \E p \in Paths : RemoveSource(p)
    \/ Execute
    \/ DiffStep
    \/ BackupStep
    \/ FinishBackup
    \/ RestoreBackup

PipelineSpec == Init /\ [][PipelineNext]_vars

\* the library: backup runs followed by restore runs
RestoreInit == InitPipeline(MaxRestoreRuns) /\ NoPureInput

RestoreNext ==
    \/ \E p \in Paths, d \in Datas : WriteSource(p, d)
    \/ \E p \in Paths : RemoveSource(p)
    \/ DamageManifest
    \/ Execute
    \/ DiffStep
    \/ BackupStep
    \/ FinishBackup
    \/ Restore
    \/ ClearRestoreDir

RestoreSpec == RestoreInit /\ [][RestoreNext]_vars

(* ----------------------- restore runs on their own --------------------- *)

\* the data directory a backup run under ex leaves of the source tree src
\* when its backup_file calls succeeded for the paths in done
BlobsOf(ex, src, done) ==
    [n \in {BlobName(ex, p) : p \in done} |->
        BlobBytes(ex, src[CHOOSE p \in done : BlobName(ex, p) = n])]

\* the executors that may have written the backup
BackupWriters ==
    LET configs == {c \in Configs : c.incremental}
    IN  {BackupExecutorNew(c) : c \in configs}
          \cup {WithEncryption(BackupExecutorNew(c), "pw1") : c \in configs}

\* a fresh process finds the destination as one earlier backup run left it
\* (some of its backup_file calls may have failed, manifest.json may have
\* been damaged since, or the run may have failed before writing anything)
\* and a restore directory that may already hold files
RestoreRunInit ==
    /\ InitProcess(0)
    /\ NoPureInput
    /\ source \in UNION {[S -> Datas] : S \in SUBSET Paths}
    /\ \/ blobs = <<>> /\ manifest = ManifestFile("absent", BlankManifest)
       \/ \E ex \in BackupWriters, done \in SUBSET DOMAIN source,
             state \in {"ok", "corrupt"} :
             /\ blobs = BlobsOf(ex, source, done)
             /\ manifest = ManifestFile(state, FromScan(Scan(source), ex.config))

\* files already present in the restore directory
PlaceRestoreFile(p, d) ==
    /\ nRestores = 0
    /\ p \notin DOMAIN rdir
    /\ rdir' = Put(rdir, p, Plain(d))
    /\ rdir_exists' = TRUE
    /\ UNCHANGED <<fsVars, runVars, histVars, cmdVars, rconfig, rresult, rerror, rpre,
                   rtrace, nRestores, pureVars>>

\* a caller of the library builds a restore executor and runs it once
RestoreRun ==
    /\ nRestores = 0
    /\ \E files \in RestoreFileLists, overwrite \in BOOLEAN,
          password \in {None} \cup {Some(w) : w \in Passwords} :
           RestoreExecute(RestoreExecutorNew(files, overwrite, password), MaxRestoreFaults)

RestoreRunNext ==
    \/ \E p \in Paths, d \in Datas : PlaceRestoreFile(p, d)
    \/ RestoreRun

RestoreRunSpec == RestoreRunInit /\ [][RestoreRunNext]_vars

(* ------------------------------- commands ------------------------------ *)

\* BackupRequest (source_dir and dest_dir are fixed)
Requests ==
    [encrypt : BOOLEAN, password : {None, Some("pw1")}, compress : BOOLEAN,
     incremental : BOOLEAN]

\* BackupResponse (duration_secs is not modelled)
BackupResponse(success, nFiles, nBytes, nSkipped, err) ==
    [success |-> success, backed_up_files |-> nFiles, backed_up_bytes |-> nBytes,
     skipped_files |-> nSkipped, error |-> err]

\* execute_backup: the response after BackupExecutor::execute returned Ok
ResponseOk(r) ==
    BackupResponse(r.success, r.backed_up_files, r.backed_up_bytes, r.skipped_files,
                   IF r.failed_files = <<>> THEN None ELSE Some(Len(r.failed_files)))

\* execute_backup: the response after BackupExecutor::execute returned Err
ResponseErr(e) == BackupResponse(FALSE, 0, 0, 0, Some(e))

\* variant: a request to encrypt without a password is not refused
RefusesNever(request) == FALSE

\* execute_backup: a request to encrypt without a password is refused
Refuses(request) == request.encrypt /\ request.password = None

\* execute_backup, up to the first progress report of the run it starts; a
\* request to encrypt without a password is answered at once, before the
\* progress callback is set and without a call of execute
ExecuteBackup(request) ==
    LET config == [encrypt |-> request.encrypt, compress |-> request.compress,
                   incremental |-> request.incremental]
    IN  IF Refuses(request)
        THEN /\ Idle
             /\ nRestores = 0
             /\ cmd_pc' = "refused"
             /\ response' = Some(ResponseErr("PasswordRequired"))
             /\ UNCHANGED <<fsVars, runVars, histVars, slot, polled, sawTerminal,
                            restoreVars, pureVars>>
        ELSE /\ StartBackup(IF request.encrypt /\ request.password # None
                            THEN WithEncryption(BackupExecutorNew(config), request.password[1])
                            ELSE BackupExecutorNew(config),
                            "slot")
             /\ cmd_pc' = "running"

\* execute_backup, after execute returned: clear the slot and answer
CommandReturn ==
    /\ cmd_pc = "running"
    /\ pc \in {"ok", "err"}
    /\ slot' = None
    /\ response' = Some(IF pc = "ok" THEN ResponseOk(result[1]) ELSE ResponseErr(error[1]))
    /\ cmd_pc' = "returned"
    /\ UNCHANGED <<fsVars, runVars, histVars, polled, sawTerminal, restoreVars, pureVars>>

\* a number of percent as the fraction num / den
Percent(num, den) == [num |-> num, den |-> den]

\* variant: the quotient is taken whatever total_files is
PercentageUnguarded(processed_files, total_files) ==
    Percent(processed_files * 100, total_files)

\* get_progress: percentage, the quotient processed_files / total_files
\* times 100, and 0.0 without files; the f64 operations round monotonically
\* and keep 0 and 100 exact, so that the bounds of the fraction are theirs
Percentage(processed_files, total_files) ==
    IF total_files > 0 THEN Percent(processed_files * 100, total_files) ELSE Percent(0, 1)

\* ProgressResponse
ProgressResponse(progress) ==
    IF progress # None
    THEN [active |-> TRUE, processed_files |-> progress[1].processed_files,
          total_files |-> progress[1].total_files,
          processed_bytes |-> progress[1].processed_bytes,
          total_bytes |-> progress[1].total_bytes,
          current_file |-> progress[1].current_file, status |-> progress[1].status,
          percentage |-> Percentage(progress[1].processed_files, progress[1].total_files)]
    ELSE [active |-> FALSE, processed_files |-> 0, total_files |-> 0, processed_bytes |-> 0,
          total_bytes |-> 0, current_file |-> None, status |-> "Idle",
          percentage |-> Percent(0, 1)]

\* a progress snapshot is the terminal event of a run
IsTerminal(progress) == progress # None /\ progress[1].status \in {"Completed", "Failed"}

\* get_progress, called from the consumer's thread
GetProgress ==
    /\ polled' = Some(ProgressResponse(slot))
    /\ sawTerminal' = (sawTerminal \/ IsTerminal(slot))
    /\ UNCHANGED <<fsVars, runVars, histVars, cmd_pc, slot, response, restoreVars, pureVars>>

\* the command surface: execute_backup on one thread, get_progress on another
CmdInit == InitPipeline(MaxCmdRuns) /\ NoPureInput

CmdNext ==
    \/ \E p \in Paths, d \in Datas : WriteSource(p, d)
    \/ \E p \in Paths : RemoveSource(p)
    \/ \E request \in Requests : ExecuteBackup(request)
    \/ DiffStep
    \/ BackupStep
    \/ FinishBackup
    \/ CommandReturn
    \/ GetProgress

CmdSpec == CmdInit /\ [][CmdNext]_vars

(* ------------------------------ differ runs ---------------------------- *)

\* FileInfo values of a scan, with and without a hash
FileInfos(p) ==
    [relative_path : {p}, size : {1, 2}, modified : {1, 2},
     hash : {None, Some("h1"), Some("h2")}]

\* the files maps of the ScanResults over Paths
ScanFiles ==
    UNION {{f \in [S -> UNION {FileInfos(p) : p \in S}] : \A p \in S : f[p].relative_path = p} :
           S \in SUBSET Paths}

\* the ScanResult with the given files
ScanResultOf(files) ==
    [files |-> files, total_files |-> Cardinality(DOMAIN files),
     total_size |-> SumOver(SizeOf(files), DOMAIN files)]

\* the manifest a run under `config` saved for the previous scan
ManifestOf(files, config) == FromScan(ScanResultOf(files), config)

DiffInit ==
    /\ InitPipeline(0)
    /\ source = <<>>
    /\ dOld \in ScanFiles
    /\ dNew \in ScanFiles
    /\ dOut = None
    /\ NoCryptoRun
    /\ NoScanRun
    /\ NoUnitRun

\* a call of scanner.rs compute_diff(old, new)
CallComputeDiff ==
    /\ \E order \in Perms(DOMAIN dNew), oorder \in Perms(DOMAIN dOld) :
         dOut' = Some([fn |-> "compute_diff", diff |-> ComputeDiff(dOld, dNew, order, oorder)])
    /\ UNCHANGED <<fsVars, runVars, histVars, cmdVars, restoreVars, dOld, dNew, cryptoVars, scanVars,
                   unitVars>>

\* a call of executor.rs compute_diff_from_manifest(manifest, current)
CallComputeDiffFromManifest ==
    /\ \E order \in Perms(DOMAIN dNew), morder \in Perms(DOMAIN dOld) :
         dOut' = Some([fn |-> "compute_diff_from_manifest",
                       diff |-> ComputeDiffFromManifest(ManifestOf(dOld, DefaultConfig).files,
                                                        dNew, order, morder)])
    /\ UNCHANGED <<fsVars, runVars, histVars, cmdVars, restoreVars, dOld, dNew, cryptoVars, scanVars,
                   unitVars>>

DiffNext == CallComputeDiff \/ CallComputeDiffFromManifest

DiffSpec == DiffInit /\ [][DiffNext]_vars


(* ------------------------- crypto, byte by byte ------------------------ *)

\* changes made to an envelope between encrypt and decrypt
MaxTampers == 2

SALT_SIZE == 32

NONCE_SIZE == 12

KEY_SIZE == 32

\* the authentication tag that AES-256-GCM appends to the ciphertext
TAG_SIZE == 16

CryptoPasswords == {"pw1", "pw2", "pw3"}

\* a 32-byte key whose bytes are 'A' but for the last one
KeyBytes(last) == [i \in 1..KEY_SIZE |-> IF i = KEY_SIZE THEN last ELSE 65]

\* derive_key: the hash is collision free, its value stands for its inputs
DeriveKey(pass, salt) == [pass |-> pass, salt |-> salt]

\* Encryptor::new: key = derive_key(password, zero salt).  The keys of the
\* three passphrases differ in their last byte: 0x80, 'B' and 0xBF
CryptoEncryptorNew(password) ==
    [key |-> CASE password = "pw1" -> KeyBytes(128)
               [] password = "pw2" -> KeyBytes(66)
               [] OTHER -> KeyBytes(191)]

\* String::from_utf8_lossy on key bytes: an ASCII byte is the character it
\* encodes, a byte from 0x80 that starts no valid UTF-8 sequence becomes
\* U+FFFD (the keys above hold no lead byte 0xC2..0xF4)
Utf8Lossy(bytes) == [i \in DOMAIN bytes |-> IF bytes[i] < 128 THEN bytes[i] ELSE 65533]

\* the values rng.fill may give the salt and the nonce
Salts == {[i \in 1..SALT_SIZE |-> b] : b \in {0, 7}}

Nonces == {[i \in 1..NONCE_SIZE |-> b] : b \in {0, 9}}

\* Aes256Gcm encrypt: ciphertext and tag stand for key, nonce and plaintext
Seal(key, nonce, plaintext) == [key |-> key, nonce |-> nonce, plaintext |-> plaintext]

\* Encryptor::encrypt with the salt and nonce the generator gave: salt, then
\* nonce, then the AEAD output; flips are the offsets of AEAD output bytes
\* changed since and cut the number of bytes missing from the tail
CryptoEncrypt(enc, plaintext, salt, nonce) ==
    [salt |-> salt, nonce |-> nonce,
     sealed |-> Seal(DeriveKey(Utf8Lossy(enc.key), salt), nonce, plaintext),
     flips |-> {}, cut |-> 0]

\* the length in bytes of an envelope
EnvLen(env) == SALT_SIZE + NONCE_SIZE + Len(env.sealed.plaintext) + TAG_SIZE - env.cut

\* encrypt: the bytes of the envelope, salt then nonce then the AEAD output;
\* a byte of the AEAD output stands for its offset and whether it was changed
EnvelopeBytes(env) ==
    LET out == [i \in 1..(Len(env.sealed.plaintext) + TAG_SIZE) |-> <<"aead", i, i \in env.flips>>]
        all == env.salt \o env.nonce \o out
    IN  SubSeq(all, 1, Len(all) - env.cut)

\* variant: decrypt derives the key under the all-zero salt of Encryptor::new
EnvelopeSaltZero(env) == [i \in 1..SALT_SIZE |-> 0]

\* decrypt: salt = &data[..SALT_SIZE]
EnvelopeSalt(env) == SubSeq(EnvelopeBytes(env), 1, SALT_SIZE)

\* decrypt: nonce_bytes = &data[SALT_SIZE..SALT_SIZE + NONCE_SIZE]
EnvelopeNonce(env) == SubSeq(EnvelopeBytes(env), SALT_SIZE + 1, SALT_SIZE + NONCE_SIZE)

\* variant: an input of exactly salt and nonce is also refused as malformed
TooShortOrBare(len) == len <= SALT_SIZE + NONCE_SIZE

\* decrypt: the input cannot hold a salt and a nonce
TooShort(len) == len < SALT_SIZE + NONCE_SIZE

\* Encryptor::decrypt
CryptoDecrypt(enc, env) ==
    IF TooShort(EnvLen(env))
    THEN [ok |-> FALSE, error |-> "InvalidFormat", plaintext |-> <<>>]
    ELSE LET key == DeriveKey(Utf8Lossy(enc.key), EnvelopeSalt(env))
         IN  IF /\ env.sealed.key = key
                /\ env.sealed.nonce = EnvelopeNonce(env)
                /\ env.flips = {}
                /\ env.cut = 0
             THEN [ok |-> TRUE, error |-> "", plaintext |-> env.sealed.plaintext]
             ELSE [ok |-> FALSE, error |-> "DecryptionFailed", plaintext |-> <<>>]

\* one byte with its lowest bit flipped
FlipBit(b) == IF b % 2 = 0 THEN b + 1 ELSE b - 1

\* the envelope with the byte at offset pos (from 1) changed
FlipByte(env, pos) ==
    IF pos <= SALT_SIZE
    THEN [env EXCEPT !.salt[pos] = FlipBit(@)]
    ELSE IF pos <= SALT_SIZE + NONCE_SIZE
    THEN [env EXCEPT !.nonce[pos - SALT_SIZE] = FlipBit(@)]
    ELSE LET off == pos - SALT_SIZE - NONCE_SIZE
         IN  [env EXCEPT !.flips = IF off \in @ THEN @ \ {off} ELSE @ \cup {off}]

CryptoInit ==
    /\ InitPipeline(0)
    /\ source = <<>>
    /\ NoDiffInput
    /\ NoScanRun
    /\ NoUnitRun
    /\ NoCryptoRun

\* a caller builds an Encryptor from a passphrase and encrypts a plaintext
CallEncrypt ==
    /\ cenv = None
    /\ \E password \in CryptoPasswords, plaintext \in Datas, salt \in Salts, nonce \in Nonces :
         LET env == CryptoEncrypt(CryptoEncryptorNew(password), plaintext, salt, nonce)
         IN  /\ cenv' = Some(env)
             /\ cmeta' = Some([password |-> password, plaintext |-> plaintext,
                               envelope |-> env, tampers |-> 0])
    /\ UNCHANGED <<fsVars, runVars, histVars, cmdVars, restoreVars, diffVars, scanVars, unitVars,
                   cout>>

\* somebody changes one byte of the stored envelope
TamperByte ==
    /\ cenv # None /\ cout = None
    /\ cmeta[1].tampers < MaxTampers
    /\ cenv[1].cut = 0
    /\ \E pos \in 1..EnvLen(cenv[1]) : cenv' = Some(FlipByte(cenv[1], pos))
    /\ cmeta' = Some([cmeta[1] EXCEPT !.tampers = @ + 1])
    /\ UNCHANGED <<fsVars, runVars, histVars, cmdVars, restoreVars, diffVars, scanVars, unitVars,
                   cout>>

\* the stored envelope loses n bytes of its tail
Truncate ==
    /\ cenv # None /\ cout = None
    /\ cmeta[1].tampers < MaxTampers
    /\ \E n \in 1..EnvLen(cenv[1]) : cenv' = Some([cenv[1] EXCEPT !.cut = @ + n])
    /\ cmeta' = Some([cmeta[1] EXCEPT !.tampers = @ + 1])
    /\ UNCHANGED <<fsVars, runVars, histVars, cmdVars, restoreVars, diffVars, scanVars, unitVars,
                   cout>>

\* a caller builds an Encryptor from a passphrase and decrypts the envelope
CallDecrypt ==
    /\ cenv # None /\ cout = None
    /\ \E password \in CryptoPasswords :
         cout' = Some([password |-> password,
                       result |-> CryptoDecrypt(CryptoEncryptorNew(password), cenv[1])])
    /\ UNCHANGED <<fsVars, runVars, histVars, cmdVars, restoreVars, diffVars, scanVars, unitVars,
                   cenv, cmeta>>

CryptoNext == CallEncrypt \/ TamperByte \/ Truncate \/ CallDecrypt

CryptoSpec == CryptoInit /\ [][CryptoNext]_vars


(* ----------------------- scanner, on a directory tree ------------------ *)

\* file and directory names are sequences of characters, a path on disk is
\* the sequence of its component names

\* DirectoryScanner::new: .git, node_modules, target, .DS_Store, Thumbs.db
DefaultPatterns ==
    << <<".", "g", "i", "t">>,
       <<"n", "o", "d", "e", "_", "m", "o", "d", "u", "l", "e", "s">>,
       <<"t", "a", "r", "g", "e", "t">>,
       <<".", "D", "S", "_", "S", "t", "o", "r", "e">>,
       <<"T", "h", "u", "m", "b", "s", ".", "d", "b">> >>

DirectoryScannerNew(root) ==
    [source |-> root, exclude_patterns |-> DefaultPatterns, compute_hash |-> FALSE]

\* DirectoryScanner::exclude
Exclude(scanner, pattern) == [scanner EXCEPT !.exclude_patterns = Append(@, pattern)]

RECURSIVE ExcludeAll(_, _)
\* execute: the scanner with every pattern of config.exclude_patterns added
ExcludeAll(scanner, patterns) ==
    IF patterns = <<>> THEN scanner
    ELSE ExcludeAll(Exclude(scanner, Head(patterns)), Tail(patterns))

\* str::contains
Contains(name, pat) ==
    \E i \in 0..(Len(name) - Len(pat)) : SubSeq(name, i + 1, i + Len(pat)) = pat

\* variant: only the last component, the entry's own name, is looked at
IsExcludedOwnName(scanner, path) ==
    /\ path # <<>>
    /\ \E p \in 1..Len(scanner.exclude_patterns) :
         Contains(path[Len(path)], scanner.exclude_patterns[p])

\* DirectoryScanner::is_excluded on the components of a path
IsExcluded(scanner, path) ==
    \E c \in 1..Len(path), p \in 1..Len(scanner.exclude_patterns) :
        Contains(path[c], scanner.exclude_patterns[p])

RECURSIVE JoinPath(_)
\* the path string of a sequence of component names
JoinPath(names) ==
    IF Len(names) = 1 THEN names[1]
    ELSE names[1] \o <<"/">> \o JoinPath(Tail(names))

\* FileInfo::from_path: str::replace('\\', "/")
ReplaceBackslash(chars) == [i \in DOMAIN chars |-> IF chars[i] = "\\" THEN "/" ELSE chars[i]]

\* FileInfo::from_path: the path below the scan root, with forward slashes
RelativePath(names) == ReplaceBackslash(JoinPath(names))

\* FileInfo::from_path
FromPath(file) ==
    [relative_path |-> RelativePath(file.names), size |-> file.size, hash |-> None]

RECURSIVE ScanWalk(_, _)
\* scan: the loop over the regular files the walk yields, in walk order
ScanWalk(entries, acc) ==
    IF entries = <<>> THEN acc
    ELSE LET file_info == FromPath(Head(entries))
         IN  ScanWalk(Tail(entries),
                      [files |-> Put(acc.files, file_info.relative_path, file_info),
                       total_size |-> acc.total_size + file_info.size])

\* DirectoryScanner::scan of the tree; order is the order in which the walk
\* meets the files, and filter_entry drops every entry whose path from the
\* root as given has an excluded component
ScanTree(scanner, order) ==
    LET yielded == SelectSeq(order, LAMBDA f : ~IsExcluded(scanner, scanner.source \o f.names))
        walked == ScanWalk(yielded, [files |-> <<>>, total_size |-> 0])
    IN  [ok |-> TRUE, files |-> walked.files,
         total_files |-> Cardinality(DOMAIN walked.files),
         total_size |-> walked.total_size]

\* the regular files that may be on disk below the root: a/b, a file named
\* a\b, .git/c, x.github and d
DiskFiles ==
    { [names |-> << <<"a">>, <<"b">> >>, size |-> 1],
      [names |-> << <<"a", "\\", "b">> >>, size |-> 2],
      [names |-> << <<".", "g", "i", "t">>, <<"c">> >>, size |-> 1],
      [names |-> << <<"x", ".", "g", "i", "t", "h", "u", "b">> >>, size |-> 1],
      [names |-> << <<"d">> >>, size |-> 3] }

\* the exclude_patterns a caller configures: none, d, or the empty pattern
ConfigPatterns == {<<>>, << <<"d">> >>, << <<>> >>}

\* the scan root as the caller gives it: src or target/src
ScanRoots == { << <<"s", "r", "c">> >>, << <<"t", "a", "r", "g", "e", "t">>, <<"s", "r", "c">> >> }

ScanInit ==
    /\ InitPipeline(0)
    /\ source = <<>>
    /\ NoDiffInput
    /\ NoCryptoRun
    /\ NoUnitRun
    /\ sTree \in SUBSET DiskFiles
    /\ sPatterns \in ConfigPatterns
    /\ sRoot \in ScanRoots
    /\ sOut = None

\* a scan by a scanner built with new and the caller's patterns added, as
\* the executor builds it; the walk may fail on an entry
CallScan ==
    /\ sOut = None
    /\ \E order \in Perms(sTree), io \in {"ok", "walk_err"} :
         sOut' = Some(IF io = "ok"
                      THEN ScanTree(ExcludeAll(DirectoryScannerNew(sRoot), sPatterns), order)
                      ELSE [ok |-> FALSE, files |-> <<>>, total_files |-> 0, total_size |-> 0])
    /\ UNCHANGED <<fsVars, runVars, histVars, cmdVars, restoreVars, diffVars, cryptoVars, unitVars,
                   sTree, sPatterns, sRoot>>

\* the caller drops the result
ForgetScan ==
    /\ sOut # None
    /\ sOut' = None
    /\ UNCHANGED <<fsVars, runVars, histVars, cmdVars, restoreVars, diffVars, cryptoVars, unitVars,
                   sTree, sPatterns, sRoot>>

ScanNext == CallScan \/ ForgetScan

ScanSpec == ScanInit /\ [][ScanNext]_vars

(* --------------------------- password strength ------------------------- *)

\* longest freely chosen beginning of a passphrase
MaxPrefix == 4

\* most repetitions of its last character appended to that beginning
MaxRepeat == 9

\* the characters of a passphrase: an upper-case and a lower-case letter, a
\* digit, a symbol, and a lower-case letter of two UTF-8 bytes
Chars == {"A", "a", "1", "!", "é"}

\* char::is_uppercase
IsUppercase(c) == c = "A"

\* char::is_lowercase
IsLowercase(c) == c \in {"a", "é"}

\* char::is_numeric
IsNumeric(c) == c = "1"

\* char::is_alphanumeric
IsAlphanumeric(c) == c \in {"A", "a", "é", "1"}

\* the number of bytes of the UTF-8 encoding of a character
Utf8Len(c) == IF c = "é" THEN 2 ELSE 1

RECURSIVE StrLen(_)
\* str::len: the length of the passphrase in bytes
StrLen(password) ==
    IF password = <<>> THEN 0 ELSE Utf8Len(Head(password)) + StrLen(Tail(password))

\* check_password_strength: the score
StrengthScore(password) ==
    LET len == StrLen(password)
        has_upper == \E i \in 1..Len(password) : IsUppercase(password[i])
        has_lower == \E i \in 1..Len(password) : IsLowercase(password[i])
        has_digit == \E i \in 1..Len(password) : IsNumeric(password[i])
        has_special == \E i \in 1..Len(password) : ~IsAlphanumeric(password[i])
    IN  (IF len >= 8 THEN 1 ELSE 0) + (IF len >= 12 THEN 1 ELSE 0)
        + (IF has_upper THEN 1 ELSE 0) + (IF has_lower THEN 1 ELSE 0)
        + (IF has_digit THEN 1 ELSE 0) + (IF has_special THEN 1 ELSE 0)

\* variant: a score of 4 already counts as strong
StrengthOfFour(score) ==
    IF score \in 0..2 THEN "Weak" ELSE IF score = 3 THEN "Medium" ELSE "Strong"

\* check_password_strength: the class of a score
StrengthOf(score) ==
    IF score \in 0..2 THEN "Weak" ELSE IF score \in 3..4 THEN "Medium" ELSE "Strong"

\* check_password_strength
CheckPasswordStrength(password) == StrengthOf(StrengthScore(password))

\* check_password: the suggestions, in order
Suggestions(password) ==
    (IF StrLen(password) < 8 THEN <<"len8">> ELSE <<>>)
    \o (IF StrLen(password) < 12 THEN <<"len12">> ELSE <<>>)
    \o (IF ~\E i \in 1..Len(password) : IsUppercase(password[i]) THEN <<"upper">> ELSE <<>>)
    \o (IF ~\E i \in 1..Len(password) : IsLowercase(password[i]) THEN <<"lower">> ELSE <<>>)
    \o (IF ~\E i \in 1..Len(password) : IsNumeric(password[i]) THEN <<"digit">> ELSE <<>>)
    \o (IF ~\E i \in 1..Len(password) : ~IsAlphanumeric(password[i]) THEN <<"symbol">>
        ELSE <<>>)

\* check_password: the PasswordCheckResponse
CheckPasswordResponse(password) ==
    LET strength == CheckPasswordStrength(password)
    IN  [strength |-> strength,
         score |-> CASE strength = "Weak" -> 1
                     [] strength = "Medium" -> 2
                     [] strength = "Strong" -> 3,
         suggestions |-> Suggestions(password)]

\* the passphrases typed by the user: a beginning followed by repetitions of
\* its last character
TypedPasswords ==
    {<<>>} \cup
    UNION {{q \o [i \in 1..k |-> q[Len(q)]] : q \in [1..n -> Chars], k \in 0..MaxRepeat} :
           n \in 1..MaxPrefix}

StrengthInit ==
    /\ InitPipeline(0)
    /\ source = <<>>
    /\ NoDiffInput
    /\ NoCryptoRun
    /\ NoScanRun
    /\ NoUnitRun

\* the check_password command, called once on what the user typed
CheckPassword ==
    /\ pwcheck = None
    /\ \E password \in TypedPasswords :
         pwcheck' = Some([password |-> password,
                          strength |-> CheckPasswordStrength(password),
                          response |-> CheckPasswordResponse(password)])
    /\ UNCHANGED <<fsVars, runVars, histVars, cmdVars, restoreVars, diffVars, cryptoVars,
                   scanVars, upd, kdf>>

StrengthNext == CheckPassword

StrengthSpec == StrengthInit /\ [][StrengthNext]_vars

(* ------------------------- BackupManifest::update ---------------------- *)

\* the largest stats.backup_count of a manifest handed to update
MaxBackupCount == 2

\* a manifest with its timestamps: created_at, updated_at, stats.last_backup
Stamped(m, created, updated, last) ==
    [version |-> m.version, created_at |-> created, updated_at |-> updated,
     config |-> m.config, files |-> m.files,
     stats |-> [total_files |-> m.stats.total_files,
                total_original_size |-> m.stats.total_original_size,
                total_backed_up_size |-> m.stats.total_backed_up_size,
                last_backup |-> last,
                backup_count |-> m.stats.backup_count]]

\* BackupManifest::from_scan called at the instant now
FromScanAt(scan, config, now) == Stamped(FromScan(scan, config), now, now, now)

\* update: the entry inserted for a path the manifest does not hold
InsertedEntry(m, p, info) ==
    [path |-> p, original_size |-> info.size, backed_up_size |-> 0,
     hash |-> UnwrapOrDefault(info.hash), modified |-> info.modified,
     encrypted |-> m.config.encrypt, compressed |-> m.config.compress]

\* variant: an entry that exists is replaced by a freshly inserted one
ModifiedEntryReplaced(m, p, info) == InsertedEntry(m, p, info)

\* update: and_modify on the entry the manifest holds for a path
ModifiedEntry(m, p, info) ==
    [m.files[p] EXCEPT !.hash = UnwrapOrDefault(info.hash),
                       !.original_size = info.size,
                       !.modified = info.modified]

\* BackupManifest::update called at the instant now
Update(m, scan, now) ==
    LET merged == [p \in (DOMAIN m.files) \cup (DOMAIN scan.files) |->
                     IF p \notin DOMAIN scan.files THEN m.files[p]
                     ELSE IF p \in DOMAIN m.files THEN ModifiedEntry(m, p, scan.files[p])
                     ELSE InsertedEntry(m, p, scan.files[p])]
        retained == [p \in {q \in DOMAIN merged : q \in DOMAIN scan.files} |-> merged[p]]
    IN  [version |-> m.version, created_at |-> m.created_at, updated_at |-> now,
         config |-> m.config, files |-> retained,
         stats |-> [total_files |-> Cardinality(DOMAIN retained),
                    total_original_size |->
                        SumOver([p \in DOMAIN retained |-> retained[p].original_size],
                                DOMAIN retained),
                    total_backed_up_size |-> m.stats.total_backed_up_size,
                    last_backup |-> now,
                    backup_count |-> m.stats.backup_count + 1]]

\* the encrypt/compress settings of a run
Policies == {c \in Configs : c.incremental}

\* a manifest made by from_scan whose owner has since set the size of the
\* stored blobs, the number of backups and the policy of later runs
EditedManifest(m, bsize, count, config) ==
    [m EXCEPT !.files = [p \in DOMAIN m.files |-> [m.files[p] EXCEPT !.backed_up_size = bsize]],
              !.stats.backup_count = count,
              !.config = [encrypt |-> config.encrypt, compress |-> config.compress,
                          incremental |-> config.incremental]]

\* the manifests handed to update
UpdateManifests ==
    {EditedManifest(FromScanAt(ScanResultOf(files), made, 1), bsize, count, config) :
        files \in ScanFiles, made \in {DefaultConfig}, bsize \in {0, 7},
        count \in 1..MaxBackupCount, config \in Policies}

UpdateInit ==
    /\ InitPipeline(0)
    /\ source = <<>>
    /\ NoDiffInput
    /\ NoCryptoRun
    /\ NoScanRun
    /\ NoUnitRun

\* a caller updates a manifest with a fresh scan
CallUpdate ==
    /\ upd = None
    /\ \E m \in UpdateManifests, files \in ScanFiles :
         upd' = Some([before |-> m, scan |-> ScanResultOf(files),
                      after |-> Update(m, ScanResultOf(files), 2)])
    /\ UNCHANGED <<fsVars, runVars, histVars, cmdVars, restoreVars, diffVars, cryptoVars,
                   scanVars, pwcheck, kdf>>

UpdateNext == CallUpdate

UpdateSpec == UpdateInit /\ [][UpdateNext]_vars

(* ------------------------- Encryptor::derive_key ----------------------- *)

PBKDF2_ITERATIONS == 100000

\* derive_key: the number of passes of its loop, 0..PBKDF2_ITERATIONS / 1000
DeriveKeyPasses == PBKDF2_ITERATIONS \div 1000

KdfInit ==
    /\ InitPipeline(0)
    /\ source = <<>>
    /\ NoDiffInput
    /\ NoCryptoRun
    /\ NoScanRun
    /\ NoUnitRun

\* derive_key, up to its loop: hash the passphrase and the salt once
DeriveKeyStart ==
    /\ kdf = None
    /\ \E password \in CryptoPasswords, salt \in Salts :
         kdf' = Some([pc |-> "loop", password |-> password, salt |-> salt,
                      i |-> 0, hashes |-> 1, key |-> None])
    /\ UNCHANGED <<fsVars, runVars, histVars, cmdVars, restoreVars, diffVars, cryptoVars,
                   scanVars, pwcheck, upd>>

\* derive_key: one pass of the loop, hashing the last digest and the salt
DeriveKeyPass ==
    /\ kdf # None
    /\ kdf[1].pc = "loop"
    /\ kdf[1].i < DeriveKeyPasses
    /\ kdf' = Some([kdf[1] EXCEPT !.i = @ + 1, !.hashes = @ + 1])
    /\ UNCHANGED <<fsVars, runVars, histVars, cmdVars, restoreVars, diffVars, cryptoVars,
                   scanVars, pwcheck, upd>>

\* derive_key: the loop is over, the last digest is returned as the key
DeriveKeyReturn ==
    /\ kdf # None
    /\ kdf[1].pc = "loop"
    /\ kdf[1].i = DeriveKeyPasses
    /\ kdf' = Some([kdf[1] EXCEPT !.pc = "returned",
                                  !.key = Some(DeriveKey(kdf[1].password, kdf[1].salt))])
    /\ UNCHANGED <<fsVars, runVars, histVars, cmdVars, restoreVars, diffVars, cryptoVars,
                   scanVars, pwcheck, upd>>

KdfNext == DeriveKeyStart \/ DeriveKeyPass \/ DeriveKeyReturn

KdfSpec == KdfInit /\ [][KdfNext]_vars

(* ================================ claims =============================== *)

(* ---- C1 ---- *)

\* a backup run that returned, backed up every scanned file and failed on
\* none, with an encryptor attached when it encrypts, followed by a restore
\* run with an empty file list into an empty directory, under the same
\* passphrase when the backup is encrypted, the file system failing no
\* read or write of the restore
RoundTripCase ==
    /\ pc = "ok"
    /\ failed_files = <<>>
    /\ Len(files_to_backup) = current_scan.total_files
    /\ executor.config.encrypt => executor.encryptor # None
    /\ rresult # None
    /\ rconfig.files = <<>>
    /\ rpre = <<>>
    /\ \A i \in 1..Len(rtrace.steps) : rtrace.steps[i].error # "Io"
    /\ executor.config.encrypt => rconfig.encryptor = executor.encryptor

\* C1: pipeline round trip.  After such a backup run and restore run, under
\* each of the four encrypt/compress policies, the restore directory holds
\* for every scanned path a file with exactly the bytes the source file had.
C1_RoundTrip ==
    RoundTripCase =>
        \A p \in DOMAIN current_scan.files :
            p \in DOMAIN rdir /\ rdir[p] = Plain(srcAtScan[p])

C1_Witness ==
    /\ RoundTripCase
    /\ executor.config.encrypt /\ executor.config.compress
    /\ DOMAIN current_scan.files = Paths
    /\ srcAtScan[<<"a">>] # srcAtScan[<<"a", "enc">>]
    /\ rresult[1].restored_files = 2

(* ---- C2 ---- *)

\* C2: after a backup run that returned a result, every entry of the
\* persisted manifest has encrypted = TRUE exactly when the blob last stored
\* for its path was written as an envelope under the .enc name.
C2_EncryptedFlagMatchesBlob ==
    (pc = "ok" /\ manifest.state = "ok") =>
        \A p \in DOMAIN manifest.body.files :
            manifest.body.files[p].encrypted <=>
                (p \in DOMAIN storedAs /\ storedAs[p] = "enc")

(* ---- C3 ---- *)

\* an incremental run that returned, started on the tree that the last run
\* that returned had scanned
IdempotentCase == pc = "ok" /\ executor.config.incremental /\ sameAsPrev

\* C3: idempotent incremental.  An incremental run on a source unchanged
\* since the previous run returns backed_up_files = 0 and skipped_files equal
\* to the number of scanned files.
C3_IdempotentIncremental ==
    IdempotentCase =>
        /\ result[1].backed_up_files = 0
        /\ result[1].skipped_files = current_scan.total_files

C3_Witness ==
    /\ IdempotentCase
    /\ current_scan.total_files = 2
    /\ result[1].skipped_files = 2

(* ---- C4 ---- *)

\* C4: every backup run after the first that returns a result increments
\* the persisted stats.backup_count by one (2 after two runs, n after n).
C4_BackupCountIncrements ==
    [][(pc = "backing" /\ pc' = "ok" /\ nCompleted >= 1 /\ manifest.state = "ok") =>
          manifest'.body.stats.backup_count = manifest.body.stats.backup_count + 1]_vars

(* ---- C5 ---- *)

\* the failed_files entries that the attempts made so far must have produced
RECURSIVE FailedOf(_)
FailedOf(atts) ==
    IF atts = <<>> THEN <<>>
    ELSE (IF Head(atts).ok THEN <<>> ELSE <<FailedEntry(Head(atts).path, "Io")>>)
         \o FailedOf(Tail(atts))

\* C5: a failing backup_file never aborts the run.  The calls of backup_file
\* are the work list taken in order, one call per path; each failing call
\* leaves exactly one "<path>: <error>" entry in failed_files, in order; and
\* the run ends only after the last path of the work list.
C5_LoopNeverAborts ==
    pc \in {"backing", "ok"} =>
        /\ Len(attempts) = idx
        /\ idx <= Len(files_to_backup)
        /\ \A i \in 1..idx : attempts[i].path = files_to_backup[i]
        /\ failed_files = FailedOf(attempts)
        /\ pc = "ok" => idx = Len(files_to_backup)

C5_Witness ==
    /\ pc = "ok"
    /\ Len(files_to_backup) = 2
    /\ ~attempts[1].ok /\ attempts[2].ok
    /\ Len(failed_files) = 1

(* ---- C6 ---- *)

\* C6: a run that returns a BackupResult has success = TRUE exactly when
\* failed_files is empty, its terminal progress event is Completed exactly
\* then and Failed otherwise, and the command reports that success value; a
\* run that returned an error, or a request that was refused before any run,
\* is never reported as a success.
C6_SuccessIffNoFailures ==
    /\ pc = "ok" =>
         /\ result[1].success <=> (result[1].failed_files = <<>>)
         /\ result[1].failed_files = failed_files
         /\ events[Len(events)].status =
              (IF failed_files = <<>> THEN "Completed" ELSE "Failed")
         /\ cmd_pc = "returned" => (response[1].success <=> (failed_files = <<>>))
    /\ (pc = "err" /\ cmd_pc = "returned") => ~response[1].success
    /\ cmd_pc = "refused" => ~response[1].success

C6_Witness ==
    /\ pc = "ok" /\ cmd_pc = "returned"
    /\ failed_files # <<>> /\ backed_up_files > 0
    /\ ~response[1].success

(* ---- C7 ---- *)

\* C7: the processed_files values of the progress events of a run, in
\* delivery order and including the terminal event, never decrease.
C7_ProcessedMonotone ==
    \A i \in 1..(Len(events) - 1) :
        events[i].processed_files <= events[i + 1].processed_files

(* ---- C8 ---- *)

\* C8: the terminal progress event stays in the shared slot until a
\* get_progress call has returned it, so that a polling consumer observes it.
C8_TerminalStaysUntilPolled ==
    [][(IsTerminal(slot) /\ ~sawTerminal) => (slot' = slot \/ sawTerminal')]_vars

(* ---- C9 ---- *)

\* a step of a run up to the choice of its work list
PreLoopStep == runsLeft' # runsLeft \/ pc = "diff"

\* C9: a run that fails before the per-file loop returns a run-level error
\* and no result, writes no blob and leaves manifest.json as it was; an
\* incremental run that finds a manifest it cannot parse fails in this way.
C9_FatalBeforeLoopWritesNothing ==
    [][PreLoopStep =>
          /\ (pc' = "err" => error' # None /\ result' = None /\ files_to_backup' = <<>>)
          /\ blobs' = blobs /\ manifest' = manifest
          /\ (pc = "diff" /\ executor.config.incremental /\ manifest.state = "corrupt")
                => pc' = "err"]_vars

C9_Witness ==
    /\ pc = "err" /\ error = Some("Serialize")
    /\ manifest.state = "corrupt"
    /\ blobs # <<>>
    /\ source # <<>>

(* ---- C10 ---- *)

\* the sequence has no duplicates
NoDup(q) == \A i, j \in 1..Len(q) : i # j => q[i] # q[j]

\* C10: for both compute_diff and compute_diff_from_manifest the four lists
\* have no duplicates, are pairwise disjoint and cover exactly the paths of
\* the previous state and of the scan; added is the scanned paths that are
\* new, deleted the previous paths that are gone.
C10_DiffPartition ==
    dOut # None =>
        LET d == dOut[1].diff
            old == DOMAIN dOld
            new == DOMAIN dNew
        IN  /\ NoDup(d.added) /\ NoDup(d.modified) /\ NoDup(d.deleted) /\ NoDup(d.unchanged)
            /\ Range(d.added) \cap Range(d.modified) = {}
            /\ Range(d.added) \cap Range(d.deleted) = {}
            /\ Range(d.added) \cap Range(d.unchanged) = {}
            /\ Range(d.modified) \cap Range(d.deleted) = {}
            /\ Range(d.modified) \cap Range(d.unchanged) = {}
            /\ Range(d.deleted) \cap Range(d.unchanged) = {}
            /\ Range(d.added) \cup Range(d.modified) \cup Range(d.deleted)
                 \cup Range(d.unchanged) = old \cup new
            /\ Range(d.added) = new \ old
            /\ Range(d.deleted) = old \ new

C10_Witness ==
    /\ dOut # None
    /\ dOut[1].fn = "compute_diff"
    /\ dOut[1].diff.modified # <<>>
    /\ dOut[1].diff.unchanged # <<>>

(* ---- C11 ---- *)

\* C11: restore target selection.  With an empty RestoreConfig.files the
\* targets are the manifest entries, each once; otherwise they are the listed
\* paths that the manifest holds, in list order; a listed path the manifest
\* does not hold gets no restored, skipped or failed record.
C11_TargetSelection ==
    rresult # None =>
        LET inManifest(p) == p \in DOMAIN manifest.body.files
        IN  /\ rconfig.files = <<>> =>
                 /\ Range(rtrace.targets) = DOMAIN manifest.body.files
                 /\ NoDup(rtrace.targets)
            /\ rconfig.files # <<>> =>
                 rtrace.targets = SelectSeq(rconfig.files, inManifest)
            /\ Len(rtrace.steps) = Len(rtrace.targets)
            /\ \A i \in 1..Len(rtrace.steps) : inManifest(rtrace.steps[i].path)
            /\ \A i \in 1..Len(rresult[1].failed_files) :
                 inManifest(rresult[1].failed_files[i].path)

C11_Witness ==
    /\ rresult # None
    /\ rconfig.files = << <<"a", "enc">>, <<"a">> >>
    /\ DOMAIN manifest.body.files = {<<"a">>}
    /\ rresult[1].restored_files = 1
    /\ rresult[1].skipped_files = 0 /\ rresult[1].failed_files = <<>>

(* ---- C12 ---- *)

\* the number of steps of the last restore run that ended in kind k
StepsOfKind(k) ==
    Cardinality({i \in 1..Len(rtrace.steps) : rtrace.steps[i].kind = k})

\* C12: an entry whose destination file exists while overwrite is false is
\* skipped: it counts in skipped_files and in neither restored_files nor
\* failed_files, the existing file is left as it was, and the run goes on to
\* the next entry.
C12_SkipExisting ==
    rresult # None =>
        /\ \A i \in 1..Len(rtrace.steps) :
             LET step == rtrace.steps[i]
             IN  /\ (step.existed /\ ~rconfig.overwrite) => step.kind = "Skipped"
                 /\ step.kind = "Skipped" => (step.existed /\ ~step.wrote)
        /\ rresult[1].skipped_files = StepsOfKind("Skipped")
        /\ rresult[1].restored_files = StepsOfKind("Restored")
        /\ Len(rresult[1].failed_files) = StepsOfKind("Err")
        /\ Len(rtrace.steps) = Len(rtrace.targets)
        /\ ~rconfig.overwrite => \A p \in DOMAIN rpre : rdir[p] = rpre[p]

C12_Witness ==
    /\ rresult # None
    /\ Len(rtrace.steps) = 2
    /\ rtrace.steps[1].kind = "Skipped"
    /\ rtrace.steps[2].kind = "Restored"
    /\ rdir[rtrace.steps[1].path] = rpre[rtrace.steps[1].path]
    /\ rdir[rtrace.steps[1].path] # rdir[rtrace.steps[2].path]

(* ---- C13 ---- *)

\* a restore run that returned a result and had targets, on a backup all of
\* whose blobs are sealed, with a passphrase that sealed none of them
WrongPassphraseCase ==
    /\ rresult # None
    /\ rtrace.targets # <<>>
    /\ manifest.body.config.encrypt
    /\ blobs # <<>>
    /\ \A n \in DOMAIN blobs : blobs[n].key # NoKey
    /\ rconfig.encryptor # None
    /\ \A n \in DOMAIN blobs : blobs[n].key # rconfig.encryptor[1]

\* the steps of restore_file before the destination is opened for writing
EarlyFailures == {"BackupFileNotFound", "WrongPassword", "Decompression"}

C14_ManifestFailureIsFatal ==
    nRestores > 0 =>
        /\ manifest.state = "absent" => rerror = Some("ManifestNotFound")
        /\ (manifest.state = "corrupt" /\ rtrace.fio # "read_err") =>
              rerror = Some("ManifestParse")
        /\ rerror \in {Some("ManifestNotFound"), Some("ManifestParse")} =>
              /\ rresult = None
              /\ rtrace.steps = <<>>
              /\ rdir = rpre
              /\ rdir_exists = rtrace.pre_exists

C14_Witness ==
    /\ rerror = Some("ManifestParse")
    /\ blobs # <<>>
    /\ ~rdir_exists
    /\ rconfig.files = <<>>

(* ---- C15 ---- *)

\* C15: a restore run that returns a result has success = TRUE exactly when
\* failed_files is empty; the loop makes one restore_file call per target
\* entry, in order, whatever fails; every call ends as restored, skipped or
\* failed, and the three counts add up to the number of targets.
C15_RestoreNeverAborts ==
    rresult # None =>
        /\ rresult[1].success <=> (rresult[1].failed_files = <<>>)
        /\ Len(rtrace.steps) = Len(rtrace.targets)
        /\ \A i \in 1..Len(rtrace.steps) :
             /\ rtrace.steps[i].path = rtrace.targets[i]
             /\ rtrace.steps[i].kind \in {"Restored", "Skipped", "Err"}
        /\ Len(rresult[1].failed_files) = StepsOfKind("Err")
        /\ rresult[1].restored_files + rresult[1].skipped_files
             + Len(rresult[1].failed_files) = Len(rtrace.targets)

C15_Witness ==
    /\ rresult # None
    /\ Len(rtrace.targets) = 2
    /\ rtrace.steps[1].kind = "Err"
    /\ rtrace.steps[2].kind = "Restored"
    /\ ~rresult[1].success

(* ---- C16 ---- *)

\* C16: a restore run leaves the backup as it found it: manifest.json and
\* every blob under data/ are the same after the run as before, whether the
\* run returns a result or an error.
C16_RestoreLeavesBackup ==
    [][nRestores' = nRestores + 1 => (blobs' = blobs /\ manifest' = manifest)]_vars

C16_Witness ==
    /\ rresult # None
    /\ rresult[1].restored_files = 2
    /\ rdir # rpre
    /\ \E n \in DOMAIN blobs : n \in DOMAIN rdir /\ blobs[n] # rdir[n]

(* ---- C17 ---- *)

\* a decrypt call under the passphrase of the encrypt call, on the envelope
\* as encrypt returned it
SamePassphraseCase ==
    /\ cout # None
    /\ cout[1].password = cmeta[1].password
    /\ cenv[1] = cmeta[1].envelope

\* C17: crypto round trip.  An Encryptor built from the passphrase W
\* decrypts what another Encryptor built from W encrypted, and returns the
\* plaintext, the empty one included, whatever salt and nonce encrypt drew.
C17_CryptoRoundTrip ==
    SamePassphraseCase =>
        /\ cout[1].result.ok
        /\ cout[1].result.plaintext = cmeta[1].plaintext

C17_Witness ==
    /\ SamePassphraseCase
    /\ cmeta[1].plaintext = <<>>
    /\ cmeta[1].password = "pw1"
    /\ cenv[1].salt[1] # 0 /\ cenv[1].nonce[1] # 0
    /\ cout[1].result.ok

(* ---- C18 ---- *)

\* a decrypt call on an envelope that still has its salt and nonce
LongEnoughCase == cout # None /\ EnvLen(cenv[1]) >= SALT_SIZE + NONCE_SIZE

\* C18: decrypt fails with DecryptionFailed, returning no plaintext, on every
\* envelope of at least 44 bytes that was made under another passphrase, or
\* of which a byte was changed or the tail cut off.
C18_WrongKeyOrTamperFails ==
    (LongEnoughCase /\ (cout[1].password # cmeta[1].password \/ cenv[1] # cmeta[1].envelope))
        => (~cout[1].result.ok /\ cout[1].result.error = "DecryptionFailed")

\* the part of C18 about changed envelopes: whatever the passphrase, a
\* changed or shortened envelope of at least 44 bytes is rejected
TamperDetected ==
    (LongEnoughCase /\ cenv[1] # cmeta[1].envelope)
        => (~cout[1].result.ok /\ cout[1].result.error = "DecryptionFailed")

(* ---- C19 ---- *)

\* C19: every ScanResult has total_files equal to the number of entries of
\* files, total_size equal to the sum of their sizes, and under every key k
\* an entry whose relative_path is k, also when two files on disk have the
\* same relative path after backslashes are replaced.
C19_ScanTotals ==
    (sOut # None /\ sOut[1].ok) =>
        /\ sOut[1].total_files = Cardinality(DOMAIN sOut[1].files)
        /\ sOut[1].total_size =
             SumOver([k \in DOMAIN sOut[1].files |-> sOut[1].files[k].size],
                     DOMAIN sOut[1].files)
        /\ \A k \in DOMAIN sOut[1].files : sOut[1].files[k].relative_path = k

(* ---- C20 ---- *)

RECURSIVE SplitPath(_)
\* the components of a relative path string
SplitPath(chars) ==
    IF \A i \in 1..Len(chars) : chars[i] # "/" THEN <<chars>>
    ELSE LET i == CHOOSE j \in 1..Len(chars) :
                    chars[j] = "/" /\ \A h \in 1..(j - 1) : chars[h] # "/"
         IN  <<SubSeq(chars, 1, i - 1)>> \o SplitPath(SubSeq(chars, i + 1, Len(chars)))

\* the patterns in force for the last scan
PatternsInForce == Range(DefaultPatterns) \cup Range(sPatterns)

\* C20: in every ScanResult no component of any relative path contains a
\* default or configured exclusion pattern, the default patterns being in
\* force whatever the caller configures; and no file on disk that has such a
\* component, a directory above it included, is in the result.
C20_Exclusion ==
    (sOut # None /\ sOut[1].ok) =>
        /\ \A k \in DOMAIN sOut[1].files :
             \A comp \in Range(SplitPath(k)), pat \in PatternsInForce : ~Contains(comp, pat)
        /\ \A f \in sTree :
             (\E c \in 1..Len(f.names), pat \in PatternsInForce : Contains(f.names[c], pat))
                => RelativePath(f.names) \notin DOMAIN sOut[1].files

C20_Witness ==
    /\ sOut # None /\ sOut[1].ok
    /\ sTree = DiskFiles
    /\ sPatterns = <<>>
    /\ DOMAIN sOut[1].files = {<<"a", "/", "b">>, <<"d">>}

(* ---- C21 ---- *)

\* 1 when the condition holds, 0 otherwise
Bit(b) == IF b THEN 1 ELSE 0

\* C21: for the passphrase of a check_password call, with score = (len >= 8)
\* + (len >= 12) + (has upper) + (has lower) + (has digit) + (has
\* non-alphanumeric), len being its length in bytes, the classifier gives
\* Weak for 0-2, Medium for 3-4 and Strong for 5-6, and the response's score
\* is 1, 2 or 3 respectively and never another value.
C21_StrengthClasses ==
    pwcheck # None =>
        LET password == pwcheck[1].password
            chars == Range(password)
            score == Bit(StrLen(password) >= 8) + Bit(StrLen(password) >= 12)
                     + Bit("A" \in chars) + Bit(chars \cap {"a", "é"} # {})
                     + Bit("1" \in chars) + Bit("!" \in chars)
            class == pwcheck[1].strength
        IN  /\ score <= 2 => class = "Weak"
            /\ score \in {3, 4} => class = "Medium"
            /\ score >= 5 => class = "Strong"
            /\ pwcheck[1].response.score =
                 (IF class = "Weak" THEN 1 ELSE IF class = "Medium" THEN 2 ELSE 3)
            /\ pwcheck[1].response.score \in {1, 2, 3}

C21_Witness ==
    /\ pwcheck # None
    /\ Len(pwcheck[1].password) = 7
    /\ StrLen(pwcheck[1].password) = 8
    /\ StrengthScore(pwcheck[1].password) = 4
    /\ pwcheck[1].response.score = 2

(* ---- C22 ---- *)

\* the statuses of the progress events of the run, in order
EventStatuses == [i \in 1..Len(events) |-> events[i].status]

\* the statuses are Scanning, ComputingDiff, nBacking times Backing, and one
\* terminal status
OrderedStatuses(statuses, nBacking) ==
    /\ Len(statuses) = nBacking + 3
    /\ statuses[1] = "Scanning"
    /\ statuses[2] = "ComputingDiff"
    /\ \A i \in 3..(nBacking + 2) : statuses[i] = "Backing"
    /\ statuses[nBacking + 3] \in {"Completed", "Failed"}

\* C22: the progress events of a backup run that returned a BackupResult
\* are, in order, Scanning, ComputingDiff, Backing at least once (also when
\* the work list is empty), and exactly one terminal event, Completed or
\* Failed, which is the last event of the run.
C22_EventOrder ==
    pc = "ok" =>
        \E nBacking \in 1..Len(events) : OrderedStatuses(EventStatuses, nBacking)

\* the same order with one Backing event per path of the work list, none
\* when the list is empty
EventOrderPerFile ==
    pc = "ok" => OrderedStatuses(EventStatuses, Len(files_to_backup))

(* ---- C23 ---- *)

\* C23: when the scan step of a backup run fails, the run returns a
\* run-level error and a progress event with status Failed was delivered to
\* the callback.
C23_ScanFailureReportsFailed ==
    (pc = "err" /\ error = Some("Scan")) =>
        /\ result = None
        /\ \E i \in 1..Len(events) : events[i].status = "Failed"

\* a run whose scan failed returns the error after the Scanning event alone
ScanFailureIsSilent ==
    (pc = "err" /\ error = Some("Scan")) =>
        /\ result = None
        /\ EventStatuses = <<"Scanning">>

(* ---- C24 ---- *)

\* the scanned paths that the manifest does not list, or lists under another
\* hash than the scan's: added and modified
ChangedPaths ==
    {p \in DOMAIN current_scan.files :
        \/ p \notin DOMAIN manifest.body.files
        \/ manifest.body.files[p].hash # current_scan.files[p].hash[1]}

\* the scanned paths that the manifest lists under the scan's hash
UnchangedPaths == (DOMAIN current_scan.files) \ ChangedPaths

\* the loop of the run has called backup_file for its whole work list and
\* manifest.json is still the one the run found
WorkSetCase == pc = "backing" /\ idx = Len(files_to_backup)

\* C24: work-set selection.  With incremental set and a manifest.json in
\* the destination, the paths passed to backup_file are exactly the added and
\* the modified paths of the diff against that manifest, each once, and
\* skipped_files is the number of unchanged paths; deleted paths are neither
\* processed nor counted.  With incremental unset, or without a manifest,
\* every scanned path is passed, each once, and skipped_files is 0, whatever
\* an existing manifest says.
C24_WorkSet ==
    WorkSetCase =>
        LET passed == {attempts[i].path : i \in 1..Len(attempts)}
        IN  /\ Len(attempts) = Cardinality(passed)
            /\ IF executor.config.incremental /\ manifest.state # "absent"
               THEN /\ passed = ChangedPaths
                    /\ skipped_count = Cardinality(UnchangedPaths)
               ELSE /\ passed = DOMAIN current_scan.files
                    /\ skipped_count = 0

C24_Witness ==
    /\ WorkSetCase
    /\ executor.config.incremental /\ manifest.state = "ok"
    /\ DOMAIN manifest.body.files = {<<"a">>}
    /\ DOMAIN current_scan.files = {<<"a", "enc">>}
    /\ Len(attempts) = 1

\* a full run over a destination whose manifest already lists every file
\* under its present hash
WorkSetFullWitness ==
    /\ WorkSetCase
    /\ ~executor.config.incremental /\ manifest.state = "ok"
    /\ UnchangedPaths = Paths
    /\ Len(attempts) = 2

(* ---- C25 ---- *)

\* the previous state of a path as the called function sees it: the old
\* scan's entry, or the entry of the manifest saved for the old scan
PreviousEntry(p) ==
    IF dOut[1].fn = "compute_diff"
    THEN [hash |-> dOld[p].hash, size |-> dOld[p].size, modified |-> dOld[p].modified]
    ELSE LET entry == ManifestOf(dOld, DefaultConfig).files[p]
         IN  [hash |-> Some(entry.hash), size |-> entry.original_size,
              modified |-> entry.modified]

\* the classification rule for a path of both states
UnchangedByRule(p) ==
    IF dNew[p].hash # None
    THEN PreviousEntry(p).hash = dNew[p].hash
    ELSE /\ PreviousEntry(p).size = dNew[p].size
         /\ PreviousEntry(p).modified = dNew[p].modified

\* the diff classifies the paths in S, present in both states, by the rule
ClassifiedByRule(S) ==
    \A p \in S :
        /\ p \in Range(dOut[1].diff.unchanged) <=> UnchangedByRule(p)
        /\ p \in Range(dOut[1].diff.modified) <=> ~UnchangedByRule(p)

\* C25: for compute_diff and for compute_diff_from_manifest, a path present
\* in the previous state and in the current scan is unchanged exactly when
\* the scan's hash equals the previous hash, if the scan entry carries a
\* hash, and exactly when size and modified time are both equal, if it
\* carries none; otherwise it is modified.
C25_DiffClassification ==
    dOut # None => ClassifiedByRule((DOMAIN dOld) \cap (DOMAIN dNew))

\* compute_diff follows the rule on the paths whose previous entry carries a
\* hash or whose scan entry carries none
ComputeDiffRule ==
    (dOut # None /\ dOut[1].fn = "compute_diff") =>
        ClassifiedByRule({p \in (DOMAIN dOld) \cap (DOMAIN dNew) :
                             dOld[p].hash # None \/ dNew[p].hash = None})

\* compute_diff_from_manifest follows the rule on the paths whose scan entry
\* carries a hash
FromManifestRule ==
    (dOut # None /\ dOut[1].fn = "compute_diff_from_manifest") =>
        ClassifiedByRule({p \in (DOMAIN dOld) \cap (DOMAIN dNew) : dNew[p].hash # None})

(* ---- C29 ---- *)

\* C29: decrypt returns InvalidFormat exactly when its input is shorter than
\* 44 bytes, never for an input of 44 bytes or more; every envelope as
\* encrypt returned it is the 32 bytes of the salt, then the 12 bytes of the
\* nonce, then the AEAD output, so at least 44 bytes long, and decrypt reads
\* the salt and the nonce back from those offsets.
C29_InvalidFormatAndLayout ==
    /\ cout # None =>
         /\ (cout[1].result.error = "InvalidFormat") <=> (Len(EnvelopeBytes(cenv[1])) < 44)
         /\ EnvLen(cenv[1]) = Len(EnvelopeBytes(cenv[1]))
    /\ cmeta # None =>
         LET env == cmeta[1].envelope
             bytes == EnvelopeBytes(env)
         IN  /\ Len(bytes) >= 44
             /\ Len(bytes) = 32 + 12 + Len(cmeta[1].plaintext) + TAG_SIZE
             /\ SubSeq(bytes, 1, 32) = env.salt
             /\ SubSeq(bytes, 33, 44) = env.nonce
             /\ \A i \in 45..Len(bytes) : bytes[i][1] = "aead"
             /\ EnvelopeSalt(env) = env.salt
             /\ EnvelopeNonce(env) = env.nonce

\* an input of exactly 44 bytes is not malformed: it fails authentication
C29_Witness ==
    /\ cout # None
    /\ Len(EnvelopeBytes(cenv[1])) = 44
    /\ cout[1].result.error = "DecryptionFailed"

\* an input of 43 bytes is refused as malformed
ShortInputWitness ==
    /\ cout # None
    /\ Len(EnvelopeBytes(cenv[1])) = 43
    /\ cout[1].result.error = "InvalidFormat"

(* ---- C26 ---- *)

\* the run ends its per-file loop, saves the manifest and returns its result
LoopCompletes == pc = "backing" /\ pc' = "ok"

\* C26: a backup run that has gone through its per-file loop rewrites
\* manifest.json from its fresh scan, whatever files failed: the keys of the
\* saved manifest are exactly the scanned paths, those of failed files
\* included, and each entry carries the hash, size and modified time of the
\* scan and the encrypt and compress settings of the run.
C26_ManifestFromFreshScan ==
    [][LoopCompletes =>
          /\ manifest'.state = "ok"
          /\ DOMAIN manifest'.body.files = DOMAIN srcAtScan
          /\ \A i \in 1..Len(failed_files) :
                failed_files[i].path \in DOMAIN manifest'.body.files
          /\ \A p \in DOMAIN srcAtScan :
                LET entry == manifest'.body.files[p]
                IN  /\ entry.path = p
                    /\ entry.hash = Blake3Hex(srcAtScan[p])
                    /\ entry.hash = current_scan.files[p].hash[1]
                    /\ entry.original_size = Len(srcAtScan[p])
                    /\ entry.modified = current_scan.files[p].modified
                    /\ entry.encrypted = executor.config.encrypt
                    /\ entry.compressed = executor.config.compress]_vars

\* a run of which one backup_file call failed and one succeeded has saved a
\* manifest listing both files
C26_Witness ==
    /\ pc = "ok"
    /\ Len(failed_files) = 1
    /\ backed_up_files = 1
    /\ manifest.state = "ok"
    /\ DOMAIN manifest.body.files = Paths
    /\ manifest.body.files[failed_files[1].path].hash = Blake3Hex(source[failed_files[1].path])

(* ---- C27 ---- *)

\* the file name of the blob last written for a path
StoredName(p) == IF storedAs[p] = "enc" THEN EncName(p) ELSE p

\* the paths for which an earlier run wrote a blob and which the run in
\* progress did not find in the source
OrphanPaths ==
    IF pc \in {"diff", "backing"}
    THEN {p \in DOMAIN storedAs : p \notin DOMAIN srcAtScan /\ StoredName(p) \in DOMAIN blobs}
    ELSE {}

\* the blob file names under which the run in progress stores its scan
ScanBlobNames == {BlobName(executor, q) : q \in DOMAIN srcAtScan}

\* no blob is deleted, and the manifest a run saves has no entry for a path
\* the run did not find in the source
OrphansDroppedNotDeleted ==
    /\ \A n \in DOMAIN blobs : n \in DOMAIN blobs'
    /\ LoopCompletes => \A p \in OrphanPaths : p \notin DOMAIN manifest'.body.files

\* C27 as stated: when a source file of one run is absent in the next run
\* against the same destination, the manifest that run saves has no entry for
\* its path and the blob written for it still exists with unchanged content;
\* no backup run deletes a blob.
C27_OrphansKeepContent ==
    [][/\ OrphansDroppedNotDeleted
       /\ \A p \in OrphanPaths : blobs'[StoredName(p)] = blobs[StoredName(p)]]_vars

\* C27, amended: the same, the content of the blob being unchanged as long
\* as the later run stores no file of its own under the same blob name.
C27_OrphansKeptUnlessNameReused ==
    [][/\ OrphansDroppedNotDeleted
       /\ \A p \in OrphanPaths :
             StoredName(p) \notin ScanBlobNames =>
                 blobs'[StoredName(p)] = blobs[StoredName(p)]]_vars

\* a second run has returned; the file a, backed up by the first run, was
\* gone from the source: the manifest lists only a.enc, the blob of a is
\* still there beside the blob of a.enc
C27_Witness ==
    /\ pc = "ok" /\ nCompleted = 2
    /\ DOMAIN srcAtScan = {<<"a", "enc">>}
    /\ <<"a">> \in DOMAIN storedAs /\ storedAs[<<"a">>] = "plain"
    /\ DOMAIN manifest.body.files = {<<"a", "enc">>}
    /\ manifest.state = "ok"
    /\ DOMAIN blobs = {<<"a">>, <<"a", "enc">>}
    /\ backed_up_files = 1

(* ---- C28 ---- *)

\* C28: after update(scan) the keys of files are exactly the scanned paths;
\* an entry that existed keeps its path, backed_up_size, encrypted and
\* compressed and has the hash, size and modified time of the scan; a new
\* entry has the encrypted and compressed settings of the manifest's config;
\* stats.total_files and stats.total_original_size are the number and the
\* size sum of the entries; backup_count has grown by exactly 1 and
\* created_at is what it was.
C28_UpdatePostcondition ==
    upd # None =>
        LET before == upd[1].before
            scan == upd[1].scan
            after == upd[1].after
        IN  /\ DOMAIN after.files = DOMAIN scan.files
            /\ \A p \in DOMAIN after.files :
                  LET entry == after.files[p]
                      info == scan.files[p]
                  IN  /\ entry.hash = (IF info.hash = None THEN "" ELSE info.hash[1])
                      /\ entry.original_size = info.size
                      /\ entry.modified = info.modified
                      /\ IF p \in DOMAIN before.files
                         THEN /\ entry.path = before.files[p].path
                              /\ entry.backed_up_size = before.files[p].backed_up_size
                              /\ entry.encrypted = before.files[p].encrypted
                              /\ entry.compressed = before.files[p].compressed
                         ELSE /\ entry.encrypted = before.config.encrypt
                              /\ entry.compressed = before.config.compress
            /\ after.stats.total_files = Cardinality(DOMAIN after.files)
            /\ after.stats.total_original_size =
                 SumOver([p \in DOMAIN after.files |-> after.files[p].original_size],
                         DOMAIN after.files)
            /\ after.stats.backup_count = before.stats.backup_count + 1
            /\ after.created_at = before.created_at

\* an update that keeps one entry, written under another policy than the
\* manifest's present one, and inserts another
C28_Witness ==
    /\ upd # None
    /\ DOMAIN upd[1].before.files = {<<"a">>}
    /\ DOMAIN upd[1].scan.files = Paths
    /\ upd[1].before.files[<<"a">>].encrypted # upd[1].before.config.encrypt
    /\ upd[1].before.files[<<"a">>].backed_up_size = 7
    /\ upd[1].after.files[<<"a">>].encrypted # upd[1].after.files[<<"a", "enc">>].encrypted
    /\ upd[1].after.stats.backup_count = 3
    /\ upd[1].after.updated_at # upd[1].after.created_at

(* ---- C30 ---- *)

\* C30: every call of derive_key has applied the hash at least 100,000
\* times when it returns the key.
C30_HundredThousandRounds ==
    (kdf # None /\ kdf[1].pc = "returned") => kdf[1].hashes >= 100000

\* a call of derive_key returns after 101 applications of the hash: the
\* first one and one per pass of the loop
DeriveKeyHashesOnReturn ==
    (kdf # None /\ kdf[1].pc = "returned") => kdf[1].hashes = 101

(* ---- C31 ---- *)

\* the characters of a passphrase of CryptoPasswords, as code points
PassphraseChars(password) ==
    <<112, 119, IF password = "pw1" THEN 49 ELSE IF password = "pw2" THEN 50 ELSE 51>>

\* the first argument of the derive_key call that made the AEAD key of the
\* envelope returned by encrypt
EncryptKeyArgument == cmeta[1].envelope.sealed.key.pass

\* C31: for every encrypt and decrypt call the first argument passed to
\* derive_key is the original passphrase of the Encryptor, so the AEAD key
\* of a blob is derive_key(passphrase, the blob's salt).
C31_KeyFromRawPassphrase ==
    /\ cmeta # None =>
         /\ EncryptKeyArgument = PassphraseChars(cmeta[1].password)
         /\ cmeta[1].envelope.sealed.key =
              DeriveKey(PassphraseChars(cmeta[1].password), cmeta[1].envelope.salt)
    /\ (cout # None /\ cout[1].result.ok) =>
         cenv[1].sealed.key = DeriveKey(PassphraseChars(cout[1].password), EnvelopeSalt(cenv[1]))

\* the argument is the key of Encryptor::new, read as a string: 32
\* characters derived from the passphrase under the all-zero salt
KeyArgumentIsDerivedKey ==
    cmeta # None =>
        /\ EncryptKeyArgument = Utf8Lossy(CryptoEncryptorNew(cmeta[1].password).key)
        /\ Len(EncryptKeyArgument) = KEY_SIZE

\* the statuses of the progress events of the last restore run, in order
RestoreEventStatuses == [i \in 1..Len(rtrace.events) |-> rtrace.events[i].status]

\* LoadingManifest, then nRestoring times Restoring, then one terminal status
RestoreOrderedStatuses(statuses, nRestoring) ==
    /\ Len(statuses) = nRestoring + 2
    /\ statuses[1] = "LoadingManifest"
    /\ \A i \in 2..(Len(statuses) - 1) : statuses[i] = "Restoring"
    /\ statuses[Len(statuses)] \in {"Completed", "Failed"}

\* C32: every restore run that returns a RestoreResult reports LoadingManifest
\* first, then Restoring once per target entry and at least once even for an
\* empty target set, then exactly one terminal event, Completed or Failed,
\* which is the last event of the run
C32_RestoreEventOrder ==
    rresult # None =>
        RestoreOrderedStatuses(RestoreEventStatuses,
                               IF rtrace.targets = <<>> THEN 1 ELSE Len(rtrace.targets))

\* what the code does: Restoring is reported once per target entry, so a run
\* with no target entry reports LoadingManifest and the terminal event only
RestoreEventOrderPerTarget ==
    rresult # None => RestoreOrderedStatuses(RestoreEventStatuses, Len(rtrace.targets))

(* ---- C33 ---- *)

\* a restore run without a passphrase has read a manifest that declares an
\* entry encrypted, the file system failing nothing outside the loop
NoPassphraseCase ==
    /\ nRestores > 0
    /\ rconfig.encryptor = None
    /\ manifest.state = "ok"
    /\ rtrace.fio = "ok"
    /\ \E p \in DOMAIN manifest.body.files : manifest.body.files[p].encrypted

\* the blob of the entry of a step is in the backup's data directory
StepBlobExists(step) ==
    (IF step.encrypted THEN EncName(step.path) ELSE step.path) \in DOMAIN blobs

IncrementalWorkChosen ==
    /\ pc \in {"backing", "ok"}
    /\ executor.config.incremental
    /\ manifest.state = "ok"

\* C34: a path whose backup_file failed in one run and that is still in the
\* source, unchanged, is in the work list of the next incremental run against
\* the same destination
C34_FailedFileIsRetried ==
    IncrementalWorkChosen => \A p \in failedBefore : p \in Range(files_to_backup)

\* what the code does: the run that failed on a path still writes the path's
\* fresh hash to manifest.json, so the next incremental run finds the path
\* unchanged and leaves it out of its work list
FailedFileIsSkipped ==
    (pc = "backing" /\ executor.config.incremental /\ manifest.state = "ok")
        => \A p \in failedBefore : p \notin Range(files_to_backup)

(* ---- C35 ---- *)

\* a restore run has returned a result after backup runs that were all fully
\* successful, the last of them having returned
RestoreAfterCleanRuns == clean /\ pc = "ok" /\ rresult # None

\* C35: after fully successful backup runs against one destination, whatever
\* the compress setting of each run and whatever the incremental runs
\* skipped, every entry that a following restore run reports as Restored has
\* at its destination the bytes the source file had at the last backup run,
\* never the still compressed blob
C35_RestoredEqualsSource ==
    RestoreAfterCleanRuns =>
        \A i \in 1..Len(rtrace.steps) :
            LET step == rtrace.steps[i]
            IN  step.kind = "Restored" =>
                    /\ step.path \in DOMAIN rdir
                    /\ ~rdir[step.path].z
                    /\ rdir[step.path] = Plain(srcAtScan[step.path])

\* what holds: after a single fully successful backup run a Restored entry
\* has the source's bytes at its destination
RestoredEqualsSourceAfterOneRun ==
    (RestoreAfterCleanRuns /\ nCompleted = 1) =>
        \A i \in 1..Len(rtrace.steps) :
            rtrace.steps[i].kind = "Restored" =>
                rdir[rtrace.steps[i].path] = Plain(srcAtScan[rtrace.steps[i].path])

(* ---- C36 ---- *)

\* the bytes that the successful backup_file calls among atts have read from
\* the source tree src
RECURSIVE SucceededBytes(_, _)
SucceededBytes(atts, src) ==
    IF atts = <<>> THEN 0
    ELSE (IF Head(atts).ok THEN Len(src[Head(atts).path]) ELSE 0)
         + SucceededBytes(Tail(atts), src)

\* C36: backup accounting.  In every BackupResult backed_up_files plus the
\* number of failed_files is the size of the work list, backed_up_bytes is
\* the sum of the source sizes of exactly the files whose backup_file call
\* succeeded, and in an incremental run backed_up_files, the failed files and
\* skipped_files add up to the number of files in the scan.
C36_BackupAccounting ==
    result # None =>
        LET r == result[1]
        IN  /\ r.backed_up_files + Len(r.failed_files) = Len(files_to_backup)
            /\ r.backed_up_files = Cardinality({i \in 1..Len(attempts) : attempts[i].ok})
            /\ r.backed_up_bytes = SucceededBytes(attempts, srcAtScan)
            /\ executor.config.incremental =>
                 r.backed_up_files + Len(r.failed_files) + r.skipped_files
                     = current_scan.total_files

C36_Witness ==
    /\ result # None
    /\ executor.config.incremental
    /\ nCompleted = 2
    /\ result[1].skipped_files = 1
    /\ Len(result[1].failed_files) = 1
    /\ current_scan.total_files = 2

\* a result that counts a file with content among those backed up
AccountingBytesWitness ==
    /\ result # None
    /\ result[1].backed_up_files = 1
    /\ result[1].backed_up_bytes = 1
    /\ Len(result[1].failed_files) = 1

(* ---- C37 ---- *)

\* the progress events of the last backup run and of the last restore run
AllProgressEvents ==
    {events[i] : i \in 1..Len(events)} \cup {rtrace.events[i] : i \in 1..Len(rtrace.events)}

\* a percentage is a number between 0 and 100
PercentInRange(pct) == pct.den > 0 /\ 0 <= pct.num /\ pct.num <= 100 * pct.den

\* C37: every progress event of a backup run or a restore run has
\* processed_files <= total_files, and the percentage that get_progress
\* computes from it is a number between 0 and 100, which is 0 when
\* total_files = 0
C37_ProcessedWithinTotal ==
    \A ev \in AllProgressEvents :
        LET answer == ProgressResponse(Some(ev))
        IN  /\ ev.processed_files <= ev.total_files
            /\ PercentInRange(answer.percentage)
            /\ ev.total_files = 0 => answer.percentage.num = 0

C37_Witness ==
    /\ \E i \in 1..Len(events) :
         /\ events[i].status = "Backing"
         /\ ProgressResponse(Some(events[i])).percentage = Percent(100, 2)
    /\ \E i \in 1..Len(rtrace.events) :
         /\ rtrace.events[i].status = "Restoring"
         /\ ProgressResponse(Some(rtrace.events[i])).percentage = Percent(100, 2)
    /\ \E i \in 1..Len(rtrace.events) :
         /\ rtrace.events[i].status = "LoadingManifest"
         /\ rtrace.events[i].total_files = 0

(* ---- C38 ---- *)

\* a component of the names contains a pattern in force for the last scan
MatchesPattern(names) ==
    \E c \in 1..Len(names), pat \in PatternsInForce : Contains(names[c], pat)

\* the disk files whose components below the root match no pattern
FilesToKeep == {f \in sTree : ~MatchesPattern(f.names)}

\* C38: exclusion is decided by the components below the scan root only.  A
\* scan from a root whose own path has a component containing a pattern, as
\* src below a directory named target, still returns every regular file
\* below the root whose root-relative components match no pattern.
C38_ExclusionBelowRootOnly ==
    (sOut # None /\ sOut[1].ok /\ MatchesPattern(sRoot)) =>
        \A f \in FilesToKeep : RelativePath(f.names) \in DOMAIN sOut[1].files

\* what the code does: filter_entry tests the entry's whole path, the root's
\* components included, so a scan from such a root returns no file at all,
\* while a scan from a root that matches no pattern returns the files to keep
RootComponentsExclude ==
    (sOut # None /\ sOut[1].ok) =>
        IF MatchesPattern(sRoot)
        THEN sOut[1].files = <<>> /\ sOut[1].total_files = 0
        ELSE \A f \in FilesToKeep : RelativePath(f.names) \in DOMAIN sOut[1].files

(* ---- C39 ---- *)

\* a step of execute_backup on a request to encrypt that carries no password
PasswordlessEncryptCall ==
    \E request \in Requests :
        request.encrypt /\ request.password = None /\ ExecuteBackup(request)

\* C39: execute_backup with encrypt = true and no password answers
\* success = false with an error message and starts no run: no progress
\* snapshot is written to the shared slot, no event is reported, and the
\* destination's blobs and manifest.json are as they were
C39_PasswordlessEncryptStartsNothing ==
    [][PasswordlessEncryptCall =>
          /\ response' # None
          /\ ~response'[1].success
          /\ response'[1].error # None
          /\ response'[1].backed_up_files = 0
          /\ slot' = slot
          /\ events' = events
          /\ pc' = pc /\ runsLeft' = runsLeft /\ executor' = executor
          /\ blobs' = blobs /\ manifest' = manifest]_vars

C39_Witness ==
    /\ cmd_pc = "refused"
    /\ response = Some(ResponseErr("PasswordRequired"))
    /\ nCompleted = 1
    /\ blobs # <<>>
    /\ manifest.state = "ok"
    /\ slot = None
    /\ polled # None /\ polled[1].active

=============================================================================
